---- MODULE Spec2Model ----
(***************************************************************************)
(* Tissaia: the deterministic geometry and pixel pipeline that runs after  *)
(* photo detection.  The module models                                     *)
(*   - crop_photos (server/src/handlers.rs, src-tauri/src/commands.rs):    *)
(*     the overlap pass over the bounding boxes, then per box the          *)
(*     normalized-to-pixel conversion, crop, rotation correction, dark     *)
(*     edge trimming and re-encoding;                                      *)
(*   - auto_trim_dark_edges, the rotation correction and the ingest of a   *)
(*     detection response (parse_detection_response) as pure functions;    *)
(*   - apply_local_filters, the filter chain, with apply_clahe computed    *)
(*     pixel by pixel, and the handlers outpaint_photo and rotate_image;   *)
(*   - AppState (state.rs of the server and of the desktop application):   *)
(*     history, settings, API keys and provider selection, with the part   *)
(*     of restore_image that reads them;                                   *)
(*   - detect_photos_with_retry: detection, verification, merge.           *)
(* Sequences are 1-based here where the Rust vectors are 0-based; the      *)
(* `index` of a CroppedPhoto keeps the 0-based value of the code.          *)
(***************************************************************************)
EXTENDS Integers, Sequences, FiniteSets, TLC

VARIABLES
    pc,              \* position of the crop_photos handler
    bounding_boxes,  \* req.bounding_boxes, as submitted
    img,             \* the decoded scan
    fixed_boxes,     \* the working copy the overlap pass mutates
    i, j,            \* the pair the overlap pass looks at next (1-based)
    pair_checks,     \* number of pairs examined so far
    idx,             \* the box the crop loop looks at next (1-based)
    photos,          \* the CroppedPhoto list built so far
    response,        \* what the handler returned: "none", "ok" or "err"
    trim_in, trim_out,      \* auto_trim_dark_edges: argument and result
    rot_upright,     \* a photo as it looks upright
    rot_turns,       \* quarter turns clockwise by which it lies on the scanner
    rot_in,          \* its crop from the scan, the buffer handed to the correction
    rot_angle,       \* the rotation_angle detected for it
    rot_out,         \* the corrected buffer
    parse_in, parse_out,    \* parse_detection_response: one box object, outcome
    flt_pc,          \* position of the apply_local_filters handler
    flt_req,         \* its request: the decoded image, mime_type, filters
    active_filters,  \* req.filters, or the default chain
    flt_k,           \* the filter name the loop looks at next (1-based)
    current,         \* the buffer folded through the chain
    flt_response,    \* what apply_local_filters returned
    outp_pc,         \* position of the outpaint_photo handler
    outp_req,        \* its request: cropped_base64, contour, bbox size
    outp_hint,       \* needs_outpaint of the box the crop was made from
    outp_api_key,    \* the "google" key held in the shared state, or none
    outp_key_reads,  \* how often the handler took the key from the state
    outp_forwarded,  \* the payloads handed to the outpainting collaborator
    outp_response,   \* what outpaint_photo returned
    rr_pc,           \* position of the rotate_image handler
    rr_req,          \* its request: the decoded image, mime_type, degrees
    rr_rotated,      \* the buffer after the rotation
    rr_response,     \* what rotate_image returned
    clahe_in, clahe_out,    \* apply_clahe: argument and result
    clahe_grid,      \* the tiles its two outer loops went through
    variant,         \* which AppState: "server" or "desktop" ("none": not in use)
    history,         \* AppState::history, newest first
    hist_added,      \* number of add_history calls so far; names the entries
    hist_budget,     \* number of add_history calls the run may make
    settings,        \* AppState::settings, its preferred_provider
    api_keys,        \* AppState::api_keys, a map from provider name to key
    providers,       \* AppState::providers
    restore_result,  \* how far the last restore_image got with provider and key
    retry_pc,        \* position of the detect_photos_with_retry handler
    retry_key,       \* whether the state holds a "google" key
    verification_enabled,   \* settings.verification_enabled as the handler read it
    detect_calls,    \* number of calls of detect_photo_boundaries
    retry_result,    \* `result`, the DetectionResult the handler holds
    verification,    \* what verify_detection returned
    retry_response   \* what detect_photos_with_retry returned

vars == <<pc, bounding_boxes, img, fixed_boxes, i, j, pair_checks, idx, photos,
          response, trim_in, trim_out, rot_upright, rot_turns, rot_in, rot_angle,
          rot_out, parse_in, parse_out, flt_pc, flt_req, active_filters, flt_k,
          current, flt_response, outp_pc, outp_req, outp_hint, outp_api_key,
          outp_key_reads, outp_forwarded, outp_response, rr_pc, rr_req,
          rr_rotated, rr_response, clahe_in, clahe_out, clahe_grid, variant,
          history, hist_added, hist_budget, settings, api_keys, providers,
          restore_result, retry_pc, retry_key, verification_enabled,
          detect_calls, retry_result, verification, retry_response>>

crop_vars == <<pc, bounding_boxes, img, fixed_boxes, i, j, pair_checks, idx,
               photos, response>>
trim_vars == <<trim_in, trim_out>>
rot_vars == <<rot_upright, rot_turns, rot_in, rot_angle, rot_out>>
parse_vars == <<parse_in, parse_out>>
flt_vars == <<flt_pc, flt_req, active_filters, flt_k, current, flt_response>>
outp_vars == <<outp_pc, outp_req, outp_hint, outp_api_key, outp_key_reads,
               outp_forwarded, outp_response>>
rr_vars == <<rr_pc, rr_req, rr_rotated, rr_response>>
clahe_vars == <<clahe_in, clahe_out, clahe_grid>>
\* The handlers and functions other than crop_photos, auto_trim_dark_edges,
\* the rotation correction and the ingest.
app_vars == <<variant, history, hist_added, hist_budget, settings, api_keys,
              providers, restore_result>>
retry_vars == <<retry_pc, retry_key, verification_enabled, detect_calls,
                retry_result, verification, retry_response>>
late_vars == <<app_vars, retry_vars>>
more_vars == <<flt_vars, outp_vars, rr_vars, clahe_vars, late_vars>>

-----------------------------------------------------------------------------
(* Integer helpers *)

Min(a, b) == IF a <= b THEN a ELSE b
Max(a, b) == IF a >= b THEN a ELSE b
Abs(a) == IF a >= 0 THEN a ELSE 0 - a

\* u32::saturating_sub
saturating_sub(a, b) == IF a >= b THEN a - b ELSE 0

\* The normalized coordinate space is 0..1000.
NormMax == 1000

-----------------------------------------------------------------------------
(* Raster buffers.  An image is a record [w, h, px] with px a function     *)
(* from <<x, y>> (0-based, origin top-left) to an <<r, g, b>> triple.      *)

Coords(w, h) == (0 .. (w - 1)) \X (0 .. (h - 1))

\* image::DynamicImage::crop_imm: the rectangle is clipped to the image.
crop_imm(im, x, y, width, height) ==
    LET cx == Min(x, im.w)
        cy == Min(y, im.h)
        cw == Min(width, im.w - cx)
        ch == Min(height, im.h - cy)
    IN  [w |-> cw, h |-> ch,
         px |-> [p \in Coords(cw, ch) |-> im.px[<<cx + p[1], cy + p[2]>>]]]

\* image::DynamicImage::rotate90: 90 degrees clockwise; the pixel at (x, y)
\* goes to (h - 1 - y, x).
rotate90(im) ==
    [w |-> im.h, h |-> im.w,
     px |-> [p \in Coords(im.h, im.w) |-> im.px[<<p[2], im.h - 1 - p[1]>>]]]

\* image::DynamicImage::rotate180: the pixel at (x, y) goes to (w-1-x, h-1-y).
rotate180(im) ==
    [w |-> im.w, h |-> im.h,
     px |-> [p \in Coords(im.w, im.h) |-> im.px[<<im.w - 1 - p[1], im.h - 1 - p[2]>>]]]

\* image::DynamicImage::rotate270: 270 degrees clockwise; the pixel at (x, y)
\* goes to (y, w - 1 - x).
rotate270(im) ==
    [w |-> im.h, h |-> im.w,
     px |-> [p \in Coords(im.h, im.w) |-> im.px[<<im.w - 1 - p[2], p[1]>>]]]

-----------------------------------------------------------------------------
(* auto_trim_dark_edges (server/src/handlers.rs 147-219, identical in      *)
(* src-tauri/src/commands.rs 18-92)                                        *)

brightness_threshold == 60
\* min_dark_fraction = 0.55 and max_trim_fraction = 0.08, in percent
min_dark_percent == 55
max_trim_percent == 8
\* images narrower or lower than this are returned untouched
min_trim_side == 20

\* (dim as f64 * max_trim_fraction) as u32.  The f64 product truncates to
\* floor(8 * dim / 100) for every u32 dim: the f64 nearest 0.08 lies above
\* 0.08 and a non-integer 8 * dim / 100 is at least 0.04 away from an integer.
\* A variant with the fraction ten times too large (0.8).
MaxTrimWide(dim) == (dim * 10 * max_trim_percent) \div 100
max_trim(dim) == (dim * max_trim_percent) \div 100

\* let avg = (p[0] as u16 + p[1] as u16 + p[2] as u16) / 3; avg < threshold
\* A variant with the comparison turned round.
IsDarkPixelFlipped(im, x, y) ==
    LET p == im.px[<<x, y>>]
    IN  ((p[1] + p[2] + p[3]) \div 3) > brightness_threshold
is_dark_pixel(im, x, y) ==
    LET p == im.px[<<x, y>>]
    IN  ((p[1] + p[2] + p[3]) \div 3) < brightness_threshold

\* dark_count of column x and of row y
dark_count_col(im, x) == Cardinality({y \in 0 .. (im.h - 1) : is_dark_pixel(im, x, y)})
dark_count_row(im, y) == Cardinality({x \in 0 .. (im.w - 1) : is_dark_pixel(im, x, y)})

\* dark_count as f64 / n as f64 >= min_dark_fraction.  For n < 2^32 the
\* quotient, when not equal to 11/20, is further than 1e-11 from it, so the
\* f64 comparison agrees with the exact one.
mostly_dark(count, n) == count * 100 >= min_dark_percent * n

\* A variant that goes on past a column that is not dark.
RECURSIVE ScanLeftNoBreak(_, _, _, _)
ScanLeftNoBreak(im, x, limit, left) ==
    IF x >= limit THEN left
    ELSE IF mostly_dark(dark_count_col(im, x), im.h)
         THEN ScanLeftNoBreak(im, x + 1, limit, x + 1)
         ELSE ScanLeftNoBreak(im, x + 1, limit, left)

\* for x in 0..max_trim_x { if dark { left = x + 1 } else { break } }
RECURSIVE scan_left(_, _, _, _)
scan_left(im, x, limit, left) ==
    IF x >= limit THEN left
    ELSE IF mostly_dark(dark_count_col(im, x), im.h)
         THEN scan_left(im, x + 1, limit, x + 1)
         ELSE left

\* for x in (w.saturating_sub(max_trim_x)..w).rev() { if dark { right = x } else { break } }
RECURSIVE scan_right(_, _, _, _)
scan_right(im, x, lowest, right) ==
    IF x < lowest THEN right
    ELSE IF mostly_dark(dark_count_col(im, x), im.h)
         THEN scan_right(im, x - 1, lowest, x)
         ELSE right

\* for y in 0..max_trim_y { if dark { top = y + 1 } else { break } }
RECURSIVE scan_top(_, _, _, _)
scan_top(im, y, limit, top) ==
    IF y >= limit THEN top
    ELSE IF mostly_dark(dark_count_row(im, y), im.w)
         THEN scan_top(im, y + 1, limit, y + 1)
         ELSE top

\* for y in (h.saturating_sub(max_trim_y)..h).rev() { if dark { bottom = y } else { break } }
RECURSIVE scan_bottom(_, _, _, _)
scan_bottom(im, y, lowest, bottom) ==
    IF y < lowest THEN bottom
    ELSE IF mostly_dark(dark_count_row(im, y), im.w)
         THEN scan_bottom(im, y - 1, lowest, y)
         ELSE bottom

\* The four edges found on the untrimmed input: [left, right, top, bottom].
trim_edges(im) ==
    LET max_trim_x == max_trim(im.w)
        max_trim_y == max_trim(im.h)
    IN  [left   |-> scan_left(im, 0, max_trim_x, 0),
         right  |-> scan_right(im, im.w - 1, saturating_sub(im.w, max_trim_x), im.w),
         top    |-> scan_top(im, 0, max_trim_y, 0),
         bottom |-> scan_bottom(im, im.h - 1, saturating_sub(im.h, max_trim_y), im.h)]

auto_trim_dark_edges(im) ==
    IF im.w < min_trim_side \/ im.h < min_trim_side THEN im
    ELSE LET e == trim_edges(im)
             new_w == Max(saturating_sub(e.right, e.left), 1)
             new_h == Max(saturating_sub(e.bottom, e.top), 1)
         IN  IF new_w < im.w \/ new_h < im.h
             THEN crop_imm(im, e.left, e.top, new_w, new_h)
             ELSE im

-----------------------------------------------------------------------------
(* Bounding boxes (models.rs BoundingBox) and the overlap pass of          *)
(* crop_photos (handlers.rs 670-710, commands.rs 380-427)                  *)

\* rotation_angle is an f32 in the code; the model keeps whole degrees.
\* confidence is an f32 in [0, 1]; the model keeps it in percent.
Box(x, y, width, height, confidence, label, rotation_angle, contour, needs_outpaint) ==
    [x |-> x, y |-> y, width |-> width, height |-> height,
     confidence |-> confidence, label |-> label,
     rotation_angle |-> rotation_angle, contour |-> contour,
     needs_outpaint |-> needs_outpaint]

\* (a_right.min(b_right) as i64 - a.x.max(b.x) as i64).max(0)
h_overlap(a, b) == Max(Min(a.x + a.width, b.x + b.width) - Max(a.x, b.x), 0)
\* (a_bottom.min(b_bottom) as i64 - a.y.max(b.y) as i64).max(0)
v_overlap(a, b) == Max(Min(a.y + a.height, b.y + b.height) - Max(a.y, b.y), 0)

\* A variant that is content with an overlap on one axis.
IntersectsOnOneAxis(a, b) == h_overlap(a, b) > 0 \/ v_overlap(a, b) > 0

\* if h_overlap > 0 && v_overlap > 0
intersects(a, b) == h_overlap(a, b) > 0 /\ v_overlap(a, b) > 0

\* A variant that rounds the half of the overlap up instead of down.
ShrinkAmountRoundUp(overlap) == (overlap + 1) \div 2 + 1

\* let shrink = (overlap / 2 + 1) as u32
shrink_amount(overlap) == overlap \div 2 + 1

\* A variant that moves the near box away by `shrink` instead of shortening it.
ShrinkFarEdgeMovesAway(b, horizontal, shrink) ==
    IF horizontal
    THEN [b EXCEPT !.x = saturating_sub(b.x, shrink)]
    ELSE [b EXCEPT !.y = saturating_sub(b.y, shrink)]

\* The near box keeps its origin and loses `shrink` of its extent.
shrink_far_edge(b, horizontal, shrink) ==
    IF horizontal
    THEN [b EXCEPT !.width = saturating_sub(b.width, shrink)]
    ELSE [b EXCEPT !.height = saturating_sub(b.height, shrink)]

\* A variant that rebuilds the far box from its geometry, with the defaults of
\* the remaining fields, instead of updating it in place.
AdvanceOriginRebuilt(b, horizontal, shrink) ==
    IF horizontal
    THEN Box(b.x + shrink, b.y, saturating_sub(b.width, shrink), b.height,
             b.confidence, b.label, 0, <<>>, FALSE)
    ELSE Box(b.x, b.y + shrink, b.width, saturating_sub(b.height, shrink),
             b.confidence, b.label, 0, <<>>, FALSE)

\* The far box has its origin advanced by `shrink` and loses `shrink` of its extent.
advance_origin(b, horizontal, shrink) ==
    IF horizontal
    THEN [b EXCEPT !.x = b.x + shrink, !.width = saturating_sub(b.width, shrink)]
    ELSE [b EXCEPT !.y = b.y + shrink, !.height = saturating_sub(b.height, shrink)]

\* The body of the inner loop for the pair (i, j), i < j, when the two boxes
\* intersect: the boxes after the shrink.
shrink_pair(boxes, m, n) ==
    LET a == boxes[m]
        b == boxes[n]
        h == h_overlap(a, b)
        v == v_overlap(a, b)
        shrink == shrink_amount(Min(h, v))
        horizontal == h <= v
        m_first == IF horizontal THEN a.x < b.x ELSE a.y < b.y
    IN  IF m_first
        THEN [boxes EXCEPT ![m] = shrink_far_edge(a, horizontal, shrink),
                           ![n] = advance_origin(b, horizontal, shrink)]
        ELSE [boxes EXCEPT ![n] = shrink_far_edge(b, horizontal, shrink),
                           ![m] = advance_origin(a, horizontal, shrink)]

\* The two nested loops as a whole, from the pair (m, n) on: the boxes after
\* the overlap pass.
RECURSIVE reconcile_from(_, _, _)
reconcile_from(boxes, m, n) ==
    IF n > Len(boxes) THEN boxes
    ELSE CHOOSE r \in
            {IF n < Len(after) THEN reconcile_from(after, m, n + 1)
                               ELSE reconcile_from(after, m + 1, m + 2) :
                after \in {IF intersects(boxes[m], boxes[n])
                           THEN shrink_pair(boxes, m, n) ELSE boxes}} :
            TRUE

\* for i in 0..len { for j in (i + 1)..len { ... } } on a clone of the request's boxes
reconcile(boxes) == reconcile_from(boxes, 1, 2)

-----------------------------------------------------------------------------
(* The crop loop of crop_photos (handlers.rs 712-771, commands.rs 427-490) *)

\* padding_factor = 0.005, in thousandths
padding_per_mille == 5

\* The <<n, dim>>, n in 0..1000 and dim one of the image sides 20, 25, 50
\* and 100, where the f64 product n / 1000.0 * dim falls just below the exact
\* integer n * dim / 1000, so that the cast to i64 yields one less
\* (580.0 / 1000.0 * 50.0 = 28.999999999999996).  For the sides 2, 3, 20,
\* 25 and 445 there is none.
F64Short == {<<580, 50>>, <<290, 100>>, <<570, 100>>, <<580, 100>>}

\* (n as f64 / 1000.0 * dim as f64) as i64
to_pixel(n, dim) ==
    IF <<n, dim>> \in F64Short THEN (n * dim) \div 1000 - 1 ELSE (n * dim) \div 1000

\* (p as f64 * padding_factor) as i64; equals floor(5 * p / 1000) for every
\* pixel extent below 200000.
pad_of(p) == (p * padding_per_mille) \div 1000

\* A variant that pads the rectangle without clamping its size to the image.
CropRectUnclamped(bbox, img_width, img_height) ==
    LET px0 == to_pixel(bbox.x, img_width)
        py0 == to_pixel(bbox.y, img_height)
        pw0 == to_pixel(bbox.width, img_width)
        ph0 == to_pixel(bbox.height, img_height)
        pad_x == pad_of(pw0)
        pad_y == pad_of(ph0)
        px == Max(px0 - pad_x, 0)
        py == Max(py0 - pad_y, 0)
    IN  [px |-> px, py |-> py,
         pw |-> pw0 + 2 * pad_x,
         ph |-> ph0 + 2 * pad_y]

\* The rectangle handed to crop_imm for one box: [px, py, pw, ph].
crop_rect(bbox, img_width, img_height) ==
    LET px0 == to_pixel(bbox.x, img_width)
        py0 == to_pixel(bbox.y, img_height)
        pw0 == to_pixel(bbox.width, img_width)
        ph0 == to_pixel(bbox.height, img_height)
        pad_x == pad_of(pw0)
        pad_y == pad_of(ph0)
        px == Max(px0 - pad_x, 0)
        py == Max(py0 - pad_y, 0)
    IN  [px |-> px, py |-> py,
         pw |-> Min(pw0 + 2 * pad_x, img_width - px),
         ph |-> Min(ph0 + 2 * pad_y, img_height - py)]

\* A variant that tests the height alone.
InvalidCropHeightOnly(r) == r.ph <= 0

\* if pw <= 0 || ph <= 0 { continue; }
invalid_crop(r) == r.pw <= 0 \/ r.ph <= 0

\* A variant that turns the crop further in the detected sense instead of
\* back.
CorrectRotationSameSense(cropped, rotation) ==
    IF Abs(rotation - 90) < 45 THEN rotate90(cropped)
    ELSE IF Abs(rotation - 180) < 45 THEN rotate180(cropped)
    ELSE IF Abs(rotation - 270) < 45 THEN rotate270(cropped)
    ELSE cropped
\* A variant whose buckets take in their end points (<= 45.0).
CorrectRotationClosedBuckets(cropped, rotation) ==
    IF Abs(rotation - 90) <= 45 THEN rotate270(cropped)
    ELSE IF Abs(rotation - 180) <= 45 THEN rotate180(cropped)
    ELSE IF Abs(rotation - 270) <= 45 THEN rotate90(cropped)
    ELSE cropped
\* The rotation correction chosen from bbox.rotation_angle.
correct_rotation(cropped, rotation) ==
    IF Abs(rotation - 90) < 45 THEN rotate270(cropped)
    ELSE IF Abs(rotation - 180) < 45 THEN rotate180(cropped)
    ELSE IF Abs(rotation - 270) < 45 THEN rotate90(cropped)
    ELSE cropped

\* crop, rotation correction, edge trim: the buffer that is encoded.
trimmed_crop(scan, bbox) ==
    LET r == crop_rect(bbox, scan.w, scan.h)
        cropped == crop_imm(scan, r.px, r.py, r.pw, r.ph)
        rotated == correct_rotation(cropped, bbox.rotation_angle)
    IN  auto_trim_dark_edges(rotated)

\* A variant that reports the size of the crop rectangle.
CroppedPhotoCropSize(scan, bbox, index) ==
    LET trimmed == trimmed_crop(scan, bbox)
        r == crop_rect(bbox, scan.w, scan.h)
    IN  [index |-> index, image |-> trimmed, width |-> r.pw,
         height |-> r.ph, source_box |-> bbox]

\* CroppedPhoto; `image` is the decoded content of image_base64.  The uuid
\* and the MIME tag are left out.
cropped_photo(scan, bbox, index) ==
    LET trimmed == trimmed_crop(scan, bbox)
    IN  [index |-> index, image |-> trimmed, width |-> trimmed.w,
         height |-> trimmed.h, source_box |-> bbox]

-----------------------------------------------------------------------------
(* Inputs of crop_photos *)

\* Largest number of boxes in one request.
MaxBoxes == 3

NoLabel == "None"

Square == <<<<0, 0>>, <<1000, 0>>, <<1000, 1000>>, <<0, 1000>>>>
Wedge == <<<<0, 0>>, <<1000, 500>>>>

\* Geometries a detector can hand over: partial overlaps side by side and
\* one above the other, one box inside another, boxes a few units wide, boxes
\* touching along an edge or at a corner, a box over the whole scan, and
\* degenerate boxes.
BoxPool ==
    { Box(0, 0, 500, 500, 95, "photo 1", 0, <<>>, FALSE),
      Box(400, 0, 500, 500, 93, "photo 2", 90, Square, TRUE),
      Box(100, 100, 200, 200, 90, NoLabel, 180, Wedge, TRUE),
      Box(450, 450, 2, 2, 50, "photo 4", 270, <<>>, FALSE),
      Box(500, 500, 500, 500, 80, "photo 5", 0 - 90, Square, FALSE),
      Box(0, 0, 1000, 1000, 70, "photo 6", 100, <<>>, FALSE),
      Box(1000, 200, 0, 300, 60, "photo 7", 0, <<>>, FALSE),
      Box(0, 451, 500, 500, 85, "photo 8", 0, <<>>, FALSE) }

BoxLists == UNION {[1 .. n -> BoxPool] : n \in 1 .. MaxBoxes}

\* Two scans, 25 x 20 and 20 x 25 pixels.  BedScan has a dark scanner-bed
\* strip along its left and top sides and a dark line through the middle;
\* GridScan has a dark column every 10 pixels and a dark bottom row.  Every
\* pixel value tells its position.
DarkPixel(x, y) == <<x, y, 59>>
BrightPixel(x, y) == <<100 + x, 100 + y, 255>>
BedScan ==
    [w |-> 25, h |-> 20,
     px |-> [p \in Coords(25, 20) |->
                IF p[1] < 2 \/ p[2] < 1 \/ p[1] = 12
                THEN DarkPixel(p[1], p[2]) ELSE BrightPixel(p[1], p[2])]]
GridScan ==
    [w |-> 20, h |-> 25,
     px |-> [p \in Coords(20, 25) |->
                IF p[1] % 10 = 0 \/ p[2] = 24
                THEN DarkPixel(p[1], p[2]) ELSE BrightPixel(p[1], p[2])]]
Scans == {BedScan, GridScan}

\* Two photos side by side that do not overlap, upright, with no contour.
EndToEndBoxes ==
    <<Box(20, 20, 450, 450, 90, "left", 0, <<>>, FALSE),
      Box(530, 20, 450, 450, 90, "right", 0, <<>>, FALSE)>>

\* A bright strip of 445 x 3 pixels: wide enough for the padding of a crop
\* to reach a whole pixel.
WideScan ==
    [w |-> 445, h |-> 3,
     px |-> [p \in Coords(445, 3) |-> <<p[1] % 256, 200 + p[2], 255>>]]

\* A box over the whole scan, a box that hangs over the right side of the
\* normalized space, and a box that lies outside it but for one corner.
OverhangBoxes ==
    <<Box(0, 0, 1000, 1000, 70, "whole", 0, <<>>, FALSE),
      Box(500, 0, 1000, 1000, 70, "overhang", 0, <<>>, FALSE),
      Box(1000, 1000, 1000, 1000, 70, "outside", 0, <<>>, FALSE)>>

-----------------------------------------------------------------------------
(* crop_photos as a state machine *)

NoResponse == [kind |-> "none", photos |-> <<>>, error |-> ""]

\* State of the pure-function parts while crop_photos runs: not in use.
Idle == [w |-> 0, h |-> 0, px |-> <<>>]
TrimIdle == trim_in = Idle /\ trim_out = Idle
RotIdle ==
    /\ rot_upright = Idle /\ rot_turns = 0 /\ rot_in = Idle /\ rot_angle = 0
    /\ rot_out = Idle
ParseIdle == parse_in = <<>> /\ parse_out = <<>>
PureIdle == TrimIdle /\ RotIdle /\ ParseIdle

NoReply == [kind |-> "none"]
FiltersIdle ==
    /\ flt_pc = "idle" /\ flt_req = <<>> /\ active_filters = <<>> /\ flt_k = 0
    /\ current = Idle /\ flt_response = NoReply
OutpaintIdle ==
    /\ outp_pc = "idle" /\ outp_req = <<>> /\ outp_hint = FALSE
    /\ outp_api_key = "" /\ outp_key_reads = 0 /\ outp_forwarded = <<>>
    /\ outp_response = NoReply
RotateIdle ==
    /\ rr_pc = "idle" /\ rr_req = <<>> /\ rr_rotated = Idle /\ rr_response = NoReply
ClaheIdle == clahe_in = Idle /\ clahe_out = Idle /\ clahe_grid = {}
AppIdle ==
    /\ variant = "none" /\ history = <<>> /\ hist_added = 0 /\ hist_budget = 0
    /\ settings = <<>> /\ api_keys = <<>> /\ providers = <<>>
    /\ restore_result = NoReply
RetryIdle ==
    /\ retry_pc = "idle" /\ retry_key = FALSE /\ verification_enabled = FALSE
    /\ detect_calls = 0 /\ retry_result = <<>> /\ verification = <<>>
    /\ retry_response = NoReply
LateIdle == AppIdle /\ RetryIdle
MoreIdle == FiltersIdle /\ OutpaintIdle /\ RotateIdle /\ ClaheIdle /\ LateIdle

CropIdle ==
    /\ pc = "idle" /\ bounding_boxes = <<>> /\ img = Idle /\ fixed_boxes = <<>>
    /\ i = 0 /\ j = 0 /\ pair_checks = 0 /\ idx = 0 /\ photos = <<>>
    /\ response = NoResponse

\* After the request is decoded: fixed_boxes = req.bounding_boxes.clone(),
\* the overlap pass is about to look at its first pair.
Init ==
    /\ \/ bounding_boxes \in BoxLists /\ img \in Scans
       \/ bounding_boxes = EndToEndBoxes /\ img \in Scans \cup {WideScan}
       \/ bounding_boxes = OverhangBoxes /\ img = WideScan
    /\ fixed_boxes = bounding_boxes
    /\ i = 1 /\ j = 2
    /\ pair_checks = 0
    /\ pc = IF Len(bounding_boxes) >= 2 THEN "overlap" ELSE "crop"
    /\ idx = 1
    /\ photos = <<>>
    /\ response = NoResponse
    /\ PureIdle /\ MoreIdle

\* A variant whose outer loop stops one row early.
NextPairSkipsLastRow ==
    LET n == Len(fixed_boxes)
    IN  /\ pair_checks' = pair_checks + 1
        /\ IF j < n THEN i' = i /\ j' = j + 1 /\ pc' = pc
           ELSE IF i + 2 < n THEN i' = i + 1 /\ j' = i + 2 /\ pc' = pc
           ELSE i' = i /\ j' = j /\ pc' = "crop"

\* for i in 0..len { for j in (i + 1)..len { ... } }: move on to the next pair,
\* or to the crop loop after the last one.
NextPair ==
    LET n == Len(fixed_boxes)
    IN  /\ pair_checks' = pair_checks + 1
        /\ IF j < n THEN i' = i /\ j' = j + 1 /\ pc' = pc
           ELSE IF i + 1 < n THEN i' = i + 1 /\ j' = i + 2 /\ pc' = pc
           ELSE i' = i /\ j' = j /\ pc' = "crop"

\* The pair (i, j) intersects: shrink.
OverlapShrink ==
    /\ pc = "overlap"
    /\ intersects(fixed_boxes[i], fixed_boxes[j])
    /\ fixed_boxes' = shrink_pair(fixed_boxes, i, j)
    /\ NextPair
    /\ UNCHANGED <<bounding_boxes, img, idx, photos, response>>
    /\ UNCHANGED <<trim_vars, rot_vars, parse_vars, more_vars>>

\* The pair (i, j) does not intersect: nothing changes.
OverlapSkip ==
    /\ pc = "overlap"
    /\ ~intersects(fixed_boxes[i], fixed_boxes[j])
    /\ NextPair
    /\ UNCHANGED <<bounding_boxes, img, fixed_boxes, idx, photos, response>>
    /\ UNCHANGED <<trim_vars, rot_vars, parse_vars, more_vars>>

\* Invalid crop dimensions for box idx: error!(...); continue.
CropSkip ==
    /\ pc = "crop"
    /\ idx <= Len(fixed_boxes)
    /\ invalid_crop(crop_rect(fixed_boxes[idx], img.w, img.h))
    /\ idx' = idx + 1
    /\ UNCHANGED <<pc, bounding_boxes, img, fixed_boxes, i, j, pair_checks,
                   photos, response>>
    /\ UNCHANGED <<trim_vars, rot_vars, parse_vars, more_vars>>

\* Box idx is cropped, corrected, trimmed and encoded; the photo is pushed.
CropPush ==
    /\ pc = "crop"
    /\ idx <= Len(fixed_boxes)
    /\ ~invalid_crop(crop_rect(fixed_boxes[idx], img.w, img.h))
    /\ photos' = Append(photos, cropped_photo(img, fixed_boxes[idx], idx - 1))
    /\ idx' = idx + 1
    /\ UNCHANGED <<pc, bounding_boxes, img, fixed_boxes, i, j, pair_checks,
                   response>>
    /\ UNCHANGED <<trim_vars, rot_vars, parse_vars, more_vars>>

\* trimmed.write_to(..) fails for box idx: `?` returns the error from the
\* handler; the photos built so far are dropped with the handler's frame.
CropEncodeError ==
    /\ pc = "crop"
    /\ idx <= Len(fixed_boxes)
    /\ ~invalid_crop(crop_rect(fixed_boxes[idx], img.w, img.h))
    /\ pc' = "done"
    /\ response' = [kind |-> "err", photos |-> <<>>, error |-> "Image encode error"]
    /\ UNCHANGED <<bounding_boxes, img, fixed_boxes, i, j, pair_checks, idx,
                   photos>>
    /\ UNCHANGED <<trim_vars, rot_vars, parse_vars, more_vars>>

\* After the last box: Ok(Json(CropResult { photos, .. })).
CropFinish ==
    /\ pc = "crop"
    /\ idx > Len(fixed_boxes)
    /\ pc' = "done"
    /\ response' = [kind |-> "ok", photos |-> photos, error |-> ""]
    /\ UNCHANGED <<bounding_boxes, img, fixed_boxes, i, j, pair_checks, idx,
                   photos>>
    /\ UNCHANGED <<trim_vars, rot_vars, parse_vars, more_vars>>

Next ==
    \/ OverlapShrink
    \/ OverlapSkip
    \/ CropSkip
    \/ CropPush
    \/ CropEncodeError
    \/ CropFinish

Spec == Init /\ [][Next]_vars

-----------------------------------------------------------------------------
(* auto_trim_dark_edges on its own *)

\* Widest dark margin drawn on a side of a test image.
MaxMargin == 2

TrimDims == {<<20, 20>>, <<40, 20>>, <<25, 30>>, <<19, 40>>}
TrimStyles == {"bright", "dark", "edge55", "edge50", "gap"}

\* Dark and bright pixels on both sides of the threshold: <<59, 60, 60>> has
\* mean 59.67 (dark), <<60, 60, 60>> has mean 60 (not dark).
TrimDark(x, y) == IF (x + y) % 2 = 0 THEN <<59, 60, 60>> ELSE DarkPixel(x, y)
TrimBright(x, y) == IF (x + y) % 2 = 0 THEN <<60, 60, 60>> ELSE BrightPixel(x, y)

\* The pixel at (x, y) of a w x h image with dark margins l, r, t, b
\* columns/rows wide.
\*   bright: the margins are dark throughout, the rest is bright
\*   dark:   every pixel is dark
\*   edge55: each margin line is dark on the first 55% of its length
\*   edge50: each margin line is dark on the first half of its length
\*   gap:    as bright, but the outermost line on every side is bright
TrimPixel(w, h, l, r, t, b, style, x, y) ==
        LET col == x < l \/ x >= w - r
            row == y < t \/ y >= h - b
            dark == CASE style = "bright" -> col \/ row
                      [] style = "dark" -> TRUE
                      [] style = "edge55" -> \/ (col /\ y * 100 < 55 * h)
                                             \/ (row /\ x * 100 < 55 * w)
                      [] style = "edge50" -> \/ (col /\ y * 2 < h)
                                             \/ (row /\ x * 2 < w)
                      [] OTHER -> /\ (col \/ row)
                                  /\ x \notin {0, w - 1} /\ y \notin {0, h - 1}
        IN  IF dark THEN TrimDark(x, y) ELSE TrimBright(x, y)

TrimImage(w, h, l, r, t, b, style) ==
    [w |-> w, h |-> h,
     px |-> [p \in Coords(w, h) |-> TrimPixel(w, h, l, r, t, b, style, p[1], p[2])]]

Margins == 0 .. MaxMargin

InitTrim ==
    /\ CropIdle /\ RotIdle /\ ParseIdle /\ MoreIdle
    /\ \E d \in TrimDims, l \in Margins, r \in Margins, t \in Margins, b \in Margins,
          st \in TrimStyles :
          trim_in = TrimImage(d[1], d[2], l, r, t, b, st)
    /\ trim_out = Idle

\* let trimmed = auto_trim_dark_edges(&rotated)
TrimApply ==
    /\ trim_in # Idle /\ trim_out = Idle
    /\ trim_out' = auto_trim_dark_edges(trim_in)
    /\ UNCHANGED <<trim_in, crop_vars, rot_vars, parse_vars, more_vars>>

NextTrim == TrimApply

SpecTrim == InitTrim /\ [][NextTrim]_vars

-----------------------------------------------------------------------------
(* The rotation correction on its own *)

\* Largest side of a test photo.
MaxRotSide == 3

\* Detected angles tried, in whole degrees: the multiples of 15 up to
\* MaxAngleSteps steps on either side of 0.
MaxAngleSteps == 48
Angles == {15 * k : k \in (0 - MaxAngleSteps) .. MaxAngleSteps}

RotImages ==
    {[w |-> w, h |-> h, px |-> [p \in Coords(w, h) |-> BrightPixel(p[1], p[2])]] :
        w \in 1 .. MaxRotSide, h \in 1 .. MaxRotSide}

\* One quarter turn clockwise of a photo lying on the scanner glass: the point
\* at column x, row y of a w x h photo comes to lie at column h - 1 - y, row x.
QuarterTurnCW(im) ==
    LET lands(p) == <<im.h - 1 - p[2], p[1]>>
    IN  [w |-> im.h, h |-> im.w,
         px |-> [q \in Coords(im.h, im.w) |->
                    im.px[CHOOSE p \in Coords(im.w, im.h) : lands(p) = q]]]

RECURSIVE TurnedCW(_, _)
TurnedCW(im, turns) == IF turns = 0 THEN im ELSE QuarterTurnCW(TurnedCW(im, turns - 1))

InitRot ==
    /\ CropIdle /\ TrimIdle /\ ParseIdle /\ MoreIdle
    /\ rot_upright \in RotImages
    /\ rot_turns \in 0 .. 3
    /\ rot_angle \in Angles
    /\ rot_in = Idle
    /\ rot_out = Idle

\* The photo lies on the scanner turned by rot_turns quarter turns; its crop
\* shows it that way.
ScanPhoto ==
    /\ rot_in = Idle
    /\ rot_in' = TurnedCW(rot_upright, rot_turns)
    /\ UNCHANGED <<rot_upright, rot_turns, rot_angle, rot_out, crop_vars, trim_vars,
                   parse_vars, more_vars>>

\* let rotated = if (rotation - 90.0).abs() < 45.0 { cropped.rotate270() } ...
CorrectRotation ==
    /\ rot_in # Idle /\ rot_out = Idle
    /\ rot_out' = correct_rotation(rot_in, rot_angle)
    /\ UNCHANGED <<rot_upright, rot_turns, rot_in, rot_angle, crop_vars, trim_vars,
                   parse_vars, more_vars>>

NextRot == ScanPhoto \/ CorrectRotation

SpecRot == InitRot /\ [][NextRot]_vars

-----------------------------------------------------------------------------
(* Ingest of one bounding-box object in parse_detection_response           *)
(* (server/src/ai.rs 1005-1051)                                            *)

\* JSON values of a field: an integer, a number written with a fraction or
\* exponent (num / den), or something that is not a number.
JInt(n) == [t |-> "int", num |-> n, den |-> 1]
JFloat(num, den) == [t |-> "float", num |-> num, den |-> den]
JOther == [t |-> "other", num |-> 0, den |-> 1]

\* Largest value a field takes in the test objects.
MaxField == 1001

JsonValues ==
    { JInt(0 - 5), JInt(0), JInt(1), JInt(400), JInt(999), JInt(1000), JInt(MaxField),
      JFloat(1999, 2), JFloat(0 - 1, 2), JOther }

is_number(v) == v.t \in {"int", "float"}

\* v.as_u64().or_else(|| v.as_f64().map(|f| f as u64)): a non-negative
\* integer as it is; any other number through the saturating, truncating
\* cast f64 -> u64 (a negative number becomes 0).  Only called on numbers.
as_u64_lossy(v) ==
    IF v.num >= 0 THEN v.num \div v.den ELSE 0

\* Ord::clamp(self, min, max): asserts min <= max (panics otherwise).
clamp_panics(lo, hi) == lo > hi
clamp(v, lo, hi) == IF v < lo THEN lo ELSE IF v > hi THEN hi ELSE v

Dropped == [kind |-> "dropped", x |-> 0, y |-> 0, width |-> 0, height |-> 0]
Panicked == [kind |-> "panic", x |-> 0, y |-> 0, width |-> 0, height |-> 0]

\* The filter_map closure on one object b, geometry only: the `?` on a field
\* that is no number drops the object; fields are read in the order x, y,
\* width, height, each clamp being called right after its field is read.
parse_box(b) ==
    IF ~is_number(b.x) \/ ~is_number(b.y) \/ ~is_number(b.width) THEN Dropped
    ELSE LET x == Min(as_u64_lossy(b.x), NormMax)
             y == Min(as_u64_lossy(b.y), NormMax)
         IN  IF clamp_panics(1, NormMax - x) THEN Panicked
             ELSE IF ~is_number(b.height) THEN Dropped
             ELSE IF clamp_panics(1, NormMax - y) THEN Panicked
             ELSE [kind |-> "box", x |-> x, y |-> y,
                   width |-> clamp(as_u64_lossy(b.width), 1, NormMax - x),
                   height |-> clamp(as_u64_lossy(b.height), 1, NormMax - y)]

JsonBoxes == [x : JsonValues, y : JsonValues, width : JsonValues, height : JsonValues]

InitParse ==
    /\ CropIdle /\ TrimIdle /\ RotIdle /\ MoreIdle
    /\ parse_in \in JsonBoxes
    /\ parse_out = <<>>

\* The object becomes a BoundingBox.
ParseAccept ==
    /\ parse_out = <<>>
    /\ parse_box(parse_in).kind = "box"
    /\ parse_out' = parse_box(parse_in)
    /\ UNCHANGED <<parse_in, crop_vars, trim_vars, rot_vars, more_vars>>

\* A field is missing or no number: filter_map leaves the object out.
ParseDrop ==
    /\ parse_out = <<>>
    /\ parse_box(parse_in).kind = "dropped"
    /\ parse_out' = Dropped
    /\ UNCHANGED <<parse_in, crop_vars, trim_vars, rot_vars, more_vars>>

\* clamp(1, 1000 - x) with x = 1000 panics: the detection is aborted.
ParsePanic ==
    /\ parse_out = <<>>
    /\ parse_box(parse_in).kind = "panic"
    /\ parse_out' = Panicked
    /\ UNCHANGED <<parse_in, crop_vars, trim_vars, rot_vars, more_vars>>

NextParse == ParseAccept \/ ParseDrop \/ ParsePanic

SpecParse == InitParse /\ [][NextParse]_vars

-----------------------------------------------------------------------------
(* apply_clahe (server/src/handlers.rs 273-341, identical in               *)
(* src-tauri/src/commands.rs 727-795)                                      *)
(*                                                                         *)
(* A buffer of the filter functions is a record [w, h, px, lib]: px as     *)
(* above, and lib the list of floating-point library operations (Gaussian  *)
(* blur and what is built on it) that were applied to px afterwards and    *)
(* whose pixel values the model does not compute.  With lib = <<>> the     *)
(* buffer's pixels are exactly px.  The alpha channel, which every filter  *)
(* copies, is left out.                                                    *)

Raster(w, h, px) == [w |-> w, h |-> h, px |-> px, lib |-> <<>>]

\* The result of a pixel computation the model does not carry out: the
\* operation is recorded, the dimensions stay.
Uncomputed(im, op, param) == [im EXCEPT !.lib = Append(@, <<op, param>>)]

\* let tile_w = (w / 8).max(16)
tiles_per_axis == 8
min_tile_extent == 16
tile_extent(dim) == Max(dim \div tiles_per_axis, min_tile_extent)

\* (0..dim).step_by(tile)
tile_origins(dim, tile) == {k * tile : k \in 0 .. ((dim - 1) \div tile)}

\* The tiles the two outer loops go through: [tx, ty, end_x, end_y] with
\* end_x = (tx + tile_w).min(w), end_y = (ty + tile_h).min(h).
clahe_tiles(w, h) ==
    {[tx |-> tx, ty |-> ty,
      end_x |-> Min(tx + tile_extent(w), w), end_y |-> Min(ty + tile_extent(h), h)] :
        tx \in tile_origins(w, tile_extent(w)), ty \in tile_origins(h, tile_extent(h))}

tile_coords(t) == (t.tx .. (t.end_x - 1)) \X (t.ty .. (t.end_y - 1))

\* The grey levels v for which 0.299 * v + 0.587 * v + 0.114 * v, summed in
\* f64, falls just below v, so that the cast to u8 yields v - 1.
LumShortGreys ==
    {1, 2, 4, 8, 11, 13, 16, 22, 26, 27, 32, 39, 44, 51, 52, 54, 57, 59, 61, 64,
     78, 81, 88, 91, 95, 101, 102, 104, 108, 114, 115, 118, 122, 127, 128, 143,
     149, 156, 157, 162, 169, 175, 176, 182, 183, 190, 195, 202, 203, 204, 208,
     209, 216, 223, 225, 228, 230, 235, 236, 239, 241, 244, 249, 251, 254}

\* (0.299 * pixel[0] as f64 + 0.587 * pixel[1] as f64 + 0.114 * pixel[2] as f64) as u8
\* Exact for grey pixels, which is what the rasters of this module are.
luminance(p) ==
    LET exact == (299 * p[1] + 587 * p[2] + 114 * p[3]) \div 1000
    IN  IF p[1] = p[2] /\ p[2] = p[3] /\ p[1] \in LumShortGreys
        THEN exact - 1 ELSE exact

Bins == 0 .. 255
clip_limit == 40

\* The luminance of every pixel of the tile, as both passes compute it.
tile_lums(im, t) == [q \in tile_coords(t) |-> luminance(im.px[q])]

\* hist[lum as usize] += 1 over the pixels of the tile
tile_hist(lums) ==
    [l \in Bins |-> Cardinality({q \in DOMAIN lums : lums[q] = l})]

\* hist[lo] + ... + hist[hi], summed by halves
RECURSIVE sum_bins(_, _, _)
sum_bins(hist, lo, hi) ==
    IF lo = hi THEN hist[lo]
    ELSE LET mid == (lo + hi) \div 2
         IN  sum_bins(hist, lo, mid) + sum_bins(hist, mid + 1, hi)

\* What the bins lo .. hi lose when each is clipped at clip_limit.
RECURSIVE sum_excess(_, _, _)
sum_excess(hist, lo, hi) ==
    IF lo = hi THEN Max(hist[lo] - clip_limit, 0)
    ELSE LET mid == (lo + hi) \div 2
         IN  sum_excess(hist, lo, mid) + sum_excess(hist, mid + 1, hi)

\* Clip every bin at clip_limit and give each bin excess / 256.
clip_and_redistribute(hist) ==
    CHOOSE clipped \in
        {[l \in Bins |-> Min(hist[l], clip_limit) + redistrib] :
            redistrib \in {sum_excess(hist, 0, 255) \div 256}} :
        TRUE

\* cdf[0] = hist[0]; cdf[i] = cdf[i - 1] + hist[i]
cdf_at(hist, l) == sum_bins(hist, 0, l)

\* cdf.iter().copied().find(|&v| v > 0).unwrap_or(0): the cdf is 0 below the
\* first bin that is not empty, and the value of that bin there.
cdf_min_of(hist) ==
    IF \A l \in Bins : hist[l] = 0 THEN 0
    ELSE hist[CHOOSE l \in Bins : hist[l] > 0 /\ \A k \in Bins : hist[k] > 0 => l <= k]

\* ((cdf[lum] - cdf_min) as f64 / denom as f64 * 255.0).clamp(0.0, 255.0) as u8
\* The f64 result truncates to floor(255 * a / d) for all 0 <= a <= d <= 300.
new_luminance(a, d) == Min((255 * a) \div d, 255)

\* For every luminance of the tile the new one, with
\* denom = (count - cdf_min).max(1).
remap_of(hist, cdf_min, lums) ==
    [l \in {lums[q] : q \in DOMAIN lums} |->
        new_luminance(cdf_at(hist, l) - cdf_min,
                      Max(Cardinality(DOMAIN lums) - cdf_min, 1))]

\* The remapping of one tile.  Every intermediate table is bound as the
\* element of a one-element set, so that it is computed once.
tile_remap(im, t) ==
    CHOOSE remap \in
        {remap_of(tb[1], tb[2], tb[3]) :
            tb \in {<<h, cdf_min_of(h), lums>> :
                <<h, lums>> \in
                    {<<clip_and_redistribute(g), ls>> :
                        <<g, ls>> \in {<<tile_hist(ls0), ls0>> :
                            ls0 \in {tile_lums(im, t)}}}}} :
        TRUE

\* The <<c, new_lum, lum>> among those the rasters of this module produce for
\* which the f64 product c * (new_lum / lum) falls just below the integer
\* c * new_lum / lum, so that the cast to u8 yields one less.
ScaleShort ==
    {<<29, 31, 29>>, <<37, 39, 37>>, <<42, 51, 42>>, <<43, 57, 43>>,
     <<45, 49, 45>>, <<47, 51, 47>>, <<55, 60, 55>>, <<79, 84, 79>>,
     <<83, 106, 83>>, <<83, 109, 83>>, <<92, 127, 92>>, <<93, 103, 93>>,
     <<94, 96, 94>>, <<94, 99, 94>>, <<94, 105, 94>>, <<98, 108, 98>>,
     <<98, 119, 98>>, <<99, 101, 99>>, <<105, 108, 105>>, <<107, 110, 107>>,
     <<107, 116, 107>>, <<107, 118, 107>>, <<109, 111, 109>>, <<110, 112, 110>>,
     <<117, 120, 117>>, <<119, 122, 119>>, <<121, 255, 121>>, <<123, 124, 123>>,
     <<138, 126, 138>>, <<142, 153, 142>>, <<148, 156, 148>>, <<150, 123, 150>>,
     <<150, 158, 150>>, <<151, 161, 151>>, <<154, 233, 154>>, <<163, 172, 163>>,
     <<165, 174, 165>>, <<167, 119, 167>>, <<174, 181, 174>>, <<177, 183, 177>>,
     <<180, 185, 180>>, <<181, 187, 181>>, <<187, 255, 187>>, <<188, 204, 188>>,
     <<193, 200, 193>>, <<193, 201, 193>>, <<197, 205, 197>>, <<198, 205, 198>>,
     <<200, 203, 200>>, <<200, 207, 200>>, <<207, 214, 207>>, <<210, 216, 210>>,
     <<214, 220, 214>>, <<215, 221, 215>>, <<218, 222, 218>>, <<221, 226, 221>>,
     <<222, 238, 222>>, <<224, 230, 224>>, <<229, 230, 229>>, <<231, 234, 231>>,
     <<232, 255, 232>>, <<237, 239, 237>>, <<240, 246, 240>>, <<242, 255, 242>>,
     <<247, 248, 247>>}

\* (pixel[k] as f64 * scale).clamp(0.0, 255.0) as u8 with
\* scale = if lum > 0 { new_lum as f64 / lum as f64 } else { 1.0 }
scale_channel(c, new_lum, lum) ==
    IF lum = 0 THEN c
    ELSE IF <<c, new_lum, lum>> \in ScaleShort THEN Min((c * new_lum) \div lum - 1, 255)
    ELSE Min((c * new_lum) \div lum, 255)

equalized_pixel(p, remap) ==
    LET lum == luminance(p)
    IN  <<scale_channel(p[1], remap[lum], lum), scale_channel(p[2], remap[lum], lum),
          scale_channel(p[3], remap[lum], lum)>>

tile_of(tiles, q) == CHOOSE t \in tiles : q \in tile_coords(t)

apply_clahe(im) ==
    IF im.lib # <<>> THEN Uncomputed(im, "apply_clahe", 0)
    ELSE CHOOSE out \in
            {Raster(im.w, im.h,
                    [q \in Coords(im.w, im.h) |->
                        equalized_pixel(im.px[q], remap[tile_of(DOMAIN remap, q)])]) :
                remap \in {[t \in clahe_tiles(im.w, im.h) |-> tile_remap(im, t)]}} :
            TRUE

-----------------------------------------------------------------------------
(* apply_clahe on its own *)

\* Grey levels of the test rasters: the multiples of 50 up to MaxLevelStep
\* steps.
MaxLevelStep == 4
ClaheLevels == {50 * k : k \in 0 .. MaxLevelStep}

\* One tile or less (1 x 1, 4 x 4, 5 x 3), a full tile of 256 pixels, a tile
\* and one more column (17 x 2), and a strip over nine tiles (130 x 1).
ClaheDims == {<<1, 1>>, <<4, 4>>, <<5, 3>>, <<16, 16>>, <<17, 2>>, <<130, 1>>}

\*   uniform: one grey level throughout
\*   band:    three neighbouring levels
\*   speck:   one level, but for one pixel one level higher
\*   ramp:    levels over the whole range
ClaheStyles == {"uniform", "band", "speck", "ramp"}

ClaheLevel(base, style, x, y) ==
    CASE style = "uniform" -> base
      [] style = "band" -> base + ((x + y) % 3)
      [] style = "speck" -> IF x = 0 /\ y = 0 THEN base + 1 ELSE base
      [] OTHER -> (base + 40 * x + 9 * y) % 256

ClaheImage(w, h, base, style) ==
    Raster(w, h, [q \in Coords(w, h) |->
                    <<ClaheLevel(base, style, q[1], q[2]),
                      ClaheLevel(base, style, q[1], q[2]),
                      ClaheLevel(base, style, q[1], q[2])>>])

InitClahe ==
    /\ CropIdle /\ PureIdle /\ LateIdle /\ FiltersIdle /\ OutpaintIdle /\ RotateIdle
    /\ \E d \in ClaheDims, base \in ClaheLevels, style \in ClaheStyles :
          clahe_in = ClaheImage(d[1], d[2], base, style)
    /\ clahe_out = Idle
    /\ clahe_grid = {}

\* "clahe" => apply_clahe(&current)
ClaheApply ==
    /\ clahe_in # Idle /\ clahe_out = Idle
    /\ clahe_out' = apply_clahe(clahe_in)
    /\ clahe_grid' = clahe_tiles(clahe_in.w, clahe_in.h)
    /\ UNCHANGED <<clahe_in, late_vars, crop_vars, trim_vars, rot_vars, parse_vars, flt_vars,
                   outp_vars, rr_vars>>

NextClahe == ClaheApply

SpecClahe == InitClahe /\ [][NextClahe]_vars

-----------------------------------------------------------------------------
(* The other filters (handlers.rs 343-431) and apply_local_filters         *)
(* (handlers.rs 917-974, commands.rs 664-725)                              *)

\* img.blur(sigma): image::DynamicImage::blur, a Gaussian blur in f32.
\* sigma is kept in tenths.
blur(im, sigma) == Uncomputed(im, "blur", sigma)

\* if w < 3 || h < 3 { return img.clone(); } then orig + amount * (orig -
\* blurred) per channel, with blurred = img.blur(1.0).  amount in tenths.
apply_unsharp_mask(im, amount) ==
    IF im.w < 3 \/ im.h < 3 THEN im
    ELSE Uncomputed(im, "apply_unsharp_mask", amount)

\* if w < 5 || h < 5 { return img.clone(); } then the weighted mean over the
\* 7 x 7 neighbourhood, the weights being exp() of f64 distances.
apply_bilateral_approx(im) ==
    IF im.w < 5 \/ im.h < 5 THEN im
    ELSE Uncomputed(im, "apply_bilateral_approx", 0)

apply_gaussian_denoise(im, sigma) == blur(im, sigma)

\* The names the match of apply_local_filters has an arm for.
filter_names ==
    {"clahe", "sharpen", "sharpen_mild", "sharpen_strong", "bilateral",
     "denoise", "denoise_mild", "denoise_strong"}

\* A variant whose fallback arm blurs instead of handing the buffer on.
ApplyFilterFallbackBlur(filter_name, cur) ==
    CASE filter_name = "clahe" -> apply_clahe(cur)
      [] filter_name = "sharpen" -> apply_unsharp_mask(cur, 10)
      [] filter_name = "sharpen_mild" -> apply_unsharp_mask(cur, 5)
      [] filter_name = "sharpen_strong" -> apply_unsharp_mask(cur, 20)
      [] filter_name = "bilateral" -> apply_bilateral_approx(cur)
      [] filter_name = "denoise" -> apply_gaussian_denoise(cur, 15)
      [] filter_name = "denoise_mild" -> apply_gaussian_denoise(cur, 8)
      [] filter_name = "denoise_strong" -> apply_gaussian_denoise(cur, 30)
      [] OTHER -> apply_gaussian_denoise(cur, 15)
\* current = match filter_name.as_str() { ... }
apply_filter(filter_name, cur) ==
    CASE filter_name = "clahe" -> apply_clahe(cur)
      [] filter_name = "sharpen" -> apply_unsharp_mask(cur, 10)
      [] filter_name = "sharpen_mild" -> apply_unsharp_mask(cur, 5)
      [] filter_name = "sharpen_strong" -> apply_unsharp_mask(cur, 20)
      [] filter_name = "bilateral" -> apply_bilateral_approx(cur)
      [] filter_name = "denoise" -> apply_gaussian_denoise(cur, 15)
      [] filter_name = "denoise_mild" -> apply_gaussian_denoise(cur, 8)
      [] filter_name = "denoise_strong" -> apply_gaussian_denoise(cur, 30)
      [] OTHER -> cur

\* req.filters: Option<Vec<String>>
NoFilters == [some |-> FALSE, names |-> <<>>]
SomeFilters(names) == [some |-> TRUE, names |-> names]

\* A variant with the default chain the other way round.
DefaultFiltersSharpenFirst == <<"sharpen", "clahe">>
\* vec!["clahe".to_string(), "sharpen".to_string()]
default_filters == <<"clahe", "sharpen">>

\* req.filters.unwrap_or_else(|| vec![...])
unwrap_filters(filters) == IF filters.some THEN filters.names ELSE default_filters

\* match req.mime_type.as_str() { "image/png" => Png, "image/webp" => WebP, _ => Jpeg }
output_format(mime_type) ==
    CASE mime_type = "image/png" -> "Png"
      [] mime_type = "image/webp" -> "WebP"
      [] OTHER -> "Jpeg"

\* STANDARD.encode of current.write_to(&mut buf, output_format): the encoded
\* form of a buffer in a format.  Jpeg is lossy, so only the buffer that was
\* encoded is recorded, not what a decoder makes of the bytes.
encoded(im, format) == [format |-> format, of |-> im]

\* Longest filter list of a request.
MaxFilters == 2

\* Names a client sends: those of the match and two it has no arm for.
RequestNames == filter_names \cup {"nonexistent_filter", "CLAHE"}

FilterLists == UNION {[1 .. n -> RequestNames] : n \in 0 .. MaxFilters}

\* Grey rasters with a level of its own for every pixel.
FilterImage(w, h) ==
    Raster(w, h, [q \in Coords(w, h) |->
                    <<60 + 20 * q[1] + 7 * q[2], 60 + 20 * q[1] + 7 * q[2],
                      60 + 20 * q[1] + 7 * q[2]>>])

\* Uploads on both sides of the size tests of the filters (2 x 2, 3 x 4 and
\* 5 x 5), as <<width, height, mime_type>>.
FilterUploads ==
    {<<2, 2, "image/png">>, <<3, 4, "image/jpeg">>, <<5, 5, "image/webp">>}

\* After the request is decoded (image::load_from_memory succeeded).
InitFilters ==
    /\ CropIdle /\ PureIdle /\ LateIdle /\ OutpaintIdle /\ RotateIdle /\ ClaheIdle
    /\ flt_pc = "start"
    /\ \E u \in FilterUploads,
          filters \in {NoFilters} \cup {SomeFilters(l) : l \in FilterLists} :
          flt_req = [img |-> FilterImage(u[1], u[2]), mime_type |-> u[3],
                     filters |-> filters]
    /\ active_filters = <<>>
    /\ flt_k = 0
    /\ current = Idle
    /\ flt_response = NoReply

\* let active_filters = req.filters.unwrap_or_else(..); let mut current = img;
FiltersBegin ==
    /\ flt_pc = "start"
    /\ active_filters' = unwrap_filters(flt_req.filters)
    /\ current' = flt_req.img
    /\ flt_k' = 1
    /\ flt_pc' = "loop"
    /\ UNCHANGED <<flt_req, flt_response>>
    /\ UNCHANGED <<late_vars, crop_vars, trim_vars, rot_vars, parse_vars, outp_vars, rr_vars,
                   clahe_vars>>

\* One turn of the loop on a name the match has an arm for.
FilterApply ==
    /\ flt_pc = "loop"
    /\ flt_k <= Len(active_filters)
    /\ active_filters[flt_k] \in filter_names
    /\ current' = apply_filter(active_filters[flt_k], current)
    /\ flt_k' = flt_k + 1
    /\ UNCHANGED <<flt_pc, flt_req, active_filters, flt_response>>
    /\ UNCHANGED <<late_vars, crop_vars, trim_vars, rot_vars, parse_vars, outp_vars, rr_vars,
                   clahe_vars>>

\* One turn of the loop on any other name: info!("Unknown filter ..."), current.
FilterUnknown ==
    /\ flt_pc = "loop"
    /\ flt_k <= Len(active_filters)
    /\ active_filters[flt_k] \notin filter_names
    /\ current' = apply_filter(active_filters[flt_k], current)
    /\ flt_k' = flt_k + 1
    /\ UNCHANGED <<flt_pc, flt_req, active_filters, flt_response>>
    /\ UNCHANGED <<late_vars, crop_vars, trim_vars, rot_vars, parse_vars, outp_vars, rr_vars,
                   clahe_vars>>

\* After the last name: current.write_to(..) succeeds, Ok(Json(result)).
FiltersEncode ==
    /\ flt_pc = "loop"
    /\ flt_k > Len(active_filters)
    /\ flt_pc' = "done"
    /\ flt_response' = [kind |-> "ok",
                        result |-> encoded(current, output_format(flt_req.mime_type))]
    /\ UNCHANGED <<flt_req, active_filters, flt_k, current>>
    /\ UNCHANGED <<late_vars, crop_vars, trim_vars, rot_vars, parse_vars, outp_vars, rr_vars,
                   clahe_vars>>

\* After the last name: current.write_to(..) fails, `?` returns the error.
FiltersEncodeError ==
    /\ flt_pc = "loop"
    /\ flt_k > Len(active_filters)
    /\ flt_pc' = "done"
    /\ flt_response' = [kind |-> "err", error |-> "Image encode error"]
    /\ UNCHANGED <<flt_req, active_filters, flt_k, current>>
    /\ UNCHANGED <<late_vars, crop_vars, trim_vars, rot_vars, parse_vars, outp_vars, rr_vars,
                   clahe_vars>>

NextFilters ==
    \/ FiltersBegin
    \/ FilterApply
    \/ FilterUnknown
    \/ FiltersEncode
    \/ FiltersEncodeError

SpecFilters == InitFilters /\ [][NextFilters]_vars

-----------------------------------------------------------------------------
(* outpaint_photo (server/src/handlers.rs 792-821, src-tauri/src/commands.rs *)
(* 1188-1221)                                                              *)

\* A variant that lets a contour of two points through.
TooFewPointsBelowTwo(contour) == Len(contour) < 2
\* if req.contour.len() < 3
too_few_points(contour) == Len(contour) < 3

\* Longest contour of a request.
MaxContour == 4

ContourPoints == {<<0, 0>>, <<1000, 500>>}
Contours == UNION {[1 .. n -> ContourPoints] : n \in 0 .. MaxContour}

\* state.get_api_key("google") is None
NoKey == ""

\* What the outpainting collaborator hands back for a crop.
Outpainted == {"outpainted crop"}

InitOutpaint ==
    /\ CropIdle /\ PureIdle /\ LateIdle /\ FiltersIdle /\ RotateIdle /\ ClaheIdle
    /\ outp_pc = "start"
    /\ \E crop \in {"crop 1", "crop 2"}, contour \in Contours :
          outp_req = [cropped_base64 |-> crop, mime_type |-> "image/png",
                      contour |-> contour, bbox_width |-> 450, bbox_height |-> 450]
    /\ outp_hint \in BOOLEAN
    /\ outp_api_key \in {NoKey, "google key"}
    /\ outp_key_reads = 0
    /\ outp_forwarded = <<>>
    /\ outp_response = NoReply

\* if req.contour.len() < 3 { return Ok(Json(req.cropped_base64)); }
OutpaintTooFewPoints ==
    /\ outp_pc = "start"
    /\ too_few_points(outp_req.contour)
    /\ outp_pc' = "done"
    /\ outp_response' = [kind |-> "ok", result |-> outp_req.cropped_base64]
    /\ UNCHANGED <<outp_req, outp_hint, outp_api_key, outp_key_reads, outp_forwarded>>
    /\ UNCHANGED <<late_vars, crop_vars, trim_vars, rot_vars, parse_vars, flt_vars, rr_vars,
                   clahe_vars>>

\* state_guard.get_api_key("google").ok_or_else(..)? with no key stored
OutpaintKeyMissing ==
    /\ outp_pc = "start"
    /\ ~too_few_points(outp_req.contour)
    /\ outp_api_key = NoKey
    /\ outp_key_reads' = outp_key_reads + 1
    /\ outp_pc' = "done"
    /\ outp_response' = [kind |-> "err",
                         error |-> "Google API key required for outpainting"]
    /\ UNCHANGED <<outp_req, outp_hint, outp_api_key, outp_forwarded>>
    /\ UNCHANGED <<late_vars, crop_vars, trim_vars, rot_vars, parse_vars, flt_vars, rr_vars,
                   clahe_vars>>

\* The key and the client are taken from the locked state.
OutpaintTakeKey ==
    /\ outp_pc = "start"
    /\ ~too_few_points(outp_req.contour)
    /\ outp_api_key # NoKey
    /\ outp_key_reads' = outp_key_reads + 1
    /\ outp_pc' = "call"
    /\ UNCHANGED <<outp_req, outp_hint, outp_api_key, outp_forwarded, outp_response>>
    /\ UNCHANGED <<late_vars, crop_vars, trim_vars, rot_vars, parse_vars, flt_vars, rr_vars,
                   clahe_vars>>

\* ai.outpaint_to_rectangle(&api_key, &req.cropped_base64, ..) is called.
OutpaintForward ==
    /\ outp_pc = "call"
    /\ outp_forwarded' =
          Append(outp_forwarded,
                 [api_key |-> outp_api_key, cropped_base64 |-> outp_req.cropped_base64,
                  mime_type |-> outp_req.mime_type, contour |-> outp_req.contour,
                  bbox_width |-> outp_req.bbox_width,
                  bbox_height |-> outp_req.bbox_height])
    /\ outp_pc' = "await"
    /\ UNCHANGED <<outp_req, outp_hint, outp_api_key, outp_key_reads, outp_response>>
    /\ UNCHANGED <<late_vars, crop_vars, trim_vars, rot_vars, parse_vars, flt_vars, rr_vars,
                   clahe_vars>>

\* The collaborator answers: Ok(Json(result)).
OutpaintReturn ==
    /\ outp_pc = "await"
    /\ \E result \in Outpainted : outp_response' = [kind |-> "ok", result |-> result]
    /\ outp_pc' = "done"
    /\ UNCHANGED <<outp_req, outp_hint, outp_api_key, outp_key_reads, outp_forwarded>>
    /\ UNCHANGED <<late_vars, crop_vars, trim_vars, rot_vars, parse_vars, flt_vars, rr_vars,
                   clahe_vars>>

\* The collaborator fails: .map_err(|e| AppError::from(e.to_string()))?
OutpaintFailed ==
    /\ outp_pc = "await"
    /\ outp_response' = [kind |-> "err", error |-> "outpaint_to_rectangle failed"]
    /\ outp_pc' = "done"
    /\ UNCHANGED <<outp_req, outp_hint, outp_api_key, outp_key_reads, outp_forwarded>>
    /\ UNCHANGED <<late_vars, crop_vars, trim_vars, rot_vars, parse_vars, flt_vars, rr_vars,
                   clahe_vars>>

NextOutpaint ==
    \/ OutpaintTooFewPoints
    \/ OutpaintKeyMissing
    \/ OutpaintTakeKey
    \/ OutpaintForward
    \/ OutpaintReturn
    \/ OutpaintFailed

SpecOutpaint == InitOutpaint /\ [][NextOutpaint]_vars

-----------------------------------------------------------------------------
(* rotate_image (server/src/handlers.rs 824-857, src-tauri/src/commands.rs *)
(* 526-563)                                                                *)

\* The % of Rust on i32: the remainder has the sign of the dividend.
rem(a, n) == IF a >= 0 THEN a % n ELSE 0 - ((0 - a) % n)

\* let normalized = ((req.degrees % 360) + 360) % 360
normalized_degrees(degrees) == rem(rem(degrees, 360) + 360, 360)

\* match normalized { 90 => img.rotate90(), 180 => img.rotate180(),
\*                    270 => img.rotate270(), _ => img }
rotate_by(im, normalized) ==
    CASE normalized = 90 -> rotate90(im)
      [] normalized = 180 -> rotate180(im)
      [] normalized = 270 -> rotate270(im)
      [] OTHER -> im

\* Largest number of degrees asked for, on either side of 0.
MaxDegrees == 450

InitRotate ==
    /\ CropIdle /\ PureIdle /\ LateIdle /\ FiltersIdle /\ OutpaintIdle /\ ClaheIdle
    /\ rr_pc = "start"
    /\ \E image \in RotImages, degrees \in (0 - MaxDegrees) .. MaxDegrees :
          rr_req = [img |-> image, mime_type |-> "image/jpeg", degrees |-> degrees]
    /\ rr_rotated = Idle
    /\ rr_response = NoReply

\* After the request is decoded: normalize and rotate.
RotateApply ==
    /\ rr_pc = "start"
    /\ rr_rotated' = rotate_by(rr_req.img, normalized_degrees(rr_req.degrees))
    /\ rr_pc' = "encode"
    /\ UNCHANGED <<rr_req, rr_response>>
    /\ UNCHANGED <<late_vars, crop_vars, trim_vars, rot_vars, parse_vars, flt_vars, outp_vars,
                   clahe_vars>>

\* rotated.write_to(..) succeeds: Ok(Json(result_base64)).
RotateEncode ==
    /\ rr_pc = "encode"
    /\ rr_response' = [kind |-> "ok",
                       result |-> encoded(rr_rotated, output_format(rr_req.mime_type))]
    /\ rr_pc' = "done"
    /\ UNCHANGED <<rr_req, rr_rotated>>
    /\ UNCHANGED <<late_vars, crop_vars, trim_vars, rot_vars, parse_vars, flt_vars, outp_vars,
                   clahe_vars>>

\* rotated.write_to(..) fails: `?` returns the error.
RotateEncodeError ==
    /\ rr_pc = "encode"
    /\ rr_response' = [kind |-> "err", error |-> "Image encode error"]
    /\ rr_pc' = "done"
    /\ UNCHANGED <<rr_req, rr_rotated>>
    /\ UNCHANGED <<late_vars, crop_vars, trim_vars, rot_vars, parse_vars, flt_vars, outp_vars,
                   clahe_vars>>

NextRotate == RotateApply \/ RotateEncode \/ RotateEncodeError

SpecRotate == InitRotate /\ [][NextRotate]_vars

-----------------------------------------------------------------------------
(* Properties of crop_photos, checked under Spec *)

\* The overlap pass is over.
PassDone == pc \in {"crop", "done"}

\* A box of the normalized space, as the data model has it.
ValidBox(b) ==
    /\ b.width >= 1 /\ b.height >= 1
    /\ b.x + b.width <= NormMax /\ b.y + b.height <= NormMax
InSpace(b) == b.x + b.width <= NormMax /\ b.y + b.height <= NormMax

\* min(right_i, right_j) - max(x_i, x_j), and the analogue on y
HOverlapExtent(a, b) == Min(a.x + a.width, b.x + b.width) - Max(a.x, b.x)
VOverlapExtent(a, b) == Min(a.y + a.height, b.y + b.height) - Max(a.y, b.y)

\* C1: once the overlap pass of crop_photos is over, no two of N >= 2 boxes
\* of the normalized space have a positive-area overlap: for all i # j,
\* h_overlap(i, j) <= 0 or v_overlap(i, j) <= 0.
C1_NoOverlapAfterPass ==
    (PassDone /\ \A k \in 1 .. Len(bounding_boxes) : InSpace(bounding_boxes[k]))
    => \A m, n \in 1 .. Len(fixed_boxes) :
          m # n => \/ HOverlapExtent(fixed_boxes[m], fixed_boxes[n]) <= 0
                   \/ VOverlapExtent(fixed_boxes[m], fixed_boxes[n]) <= 0

\* C2: if every submitted box has width >= 1, height >= 1, x + width <= 1000
\* and y + height <= 1000, every box has them after the overlap pass too.
C2_BoxesStayValid ==
    (PassDone /\ \A k \in 1 .. Len(bounding_boxes) : ValidBox(bounding_boxes[k]))
    => \A k \in 1 .. Len(fixed_boxes) : ValidBox(fixed_boxes[k])

\* C3: the overlap pass keeps order and identity: as many boxes as submitted,
\* and the box at index k differs from the submitted box at index k in x, y,
\* width and height at most; confidence, label, rotation_angle, contour and
\* needs_outpaint are unchanged.
C3_OrderAndIdentity ==
    /\ Len(fixed_boxes) = Len(bounding_boxes)
    /\ \A k \in 1 .. Len(fixed_boxes) :
          /\ fixed_boxes[k].confidence = bounding_boxes[k].confidence
          /\ fixed_boxes[k].label = bounding_boxes[k].label
          /\ fixed_boxes[k].rotation_angle = bounding_boxes[k].rotation_angle
          /\ fixed_boxes[k].contour = bounding_boxes[k].contour
          /\ fixed_boxes[k].needs_outpaint = bounding_boxes[k].needs_outpaint

\* The pass is over and has shrunk a box that carries a contour, a rotation
\* and the outpaint hint.
C3_Witness ==
    /\ PassDone
    /\ \E k \in 1 .. Len(fixed_boxes) :
          /\ fixed_boxes[k].x # bounding_boxes[k].x
          /\ fixed_boxes[k].width # bounding_boxes[k].width
          /\ fixed_boxes[k].needs_outpaint
          /\ fixed_boxes[k].rotation_angle = 90
          /\ Len(fixed_boxes[k].contour) = 4

\* The boxes among the first n whose pixel rectangle has a positive width
\* and height.
PositiveCrops(n) ==
    {k \in 1 .. n :
        LET r == crop_rect(fixed_boxes[k], img.w, img.h)
        IN  r.pw > 0 /\ r.ph > 0}

\* C9: a box whose pixel width or height is not positive is skipped and the
\* boxes after it are still processed: the photos built so far are exactly
\* one for each box already visited that has a positive pixel width and
\* height, in input order, each with `index` the position of its box in the
\* submitted list; a result that is returned holds these photos for all boxes.
C9_SkippedBoxesOnly ==
    /\ PassDone =>
          /\ Len(photos) = Cardinality(PositiveCrops(idx - 1))
          /\ \A n \in 1 .. Len(photos) :
                /\ photos[n].index + 1 \in PositiveCrops(idx - 1)
                /\ photos[n].source_box = fixed_boxes[photos[n].index + 1]
          /\ \A m, n \in 1 .. Len(photos) :
                m < n => photos[m].index < photos[n].index
    /\ response.kind = "ok" =>
          /\ idx = Len(fixed_boxes) + 1
          /\ response.photos = photos

\* A result with a gap: box 0 and box 2 were cropped, box 1 was skipped.
C9_Witness ==
    /\ response.kind = "ok"
    /\ Len(response.photos) = 2
    /\ response.photos[1].index = 0
    /\ response.photos[2].index = 2
    /\ Len(fixed_boxes) = 3

\* C10: a failing re-encode of one crop does not abort the batch: when the
\* handler returns after crops were produced, they are returned.
C10_PartialResult ==
    (pc = "done" /\ photos # <<>>)
    => /\ response.kind = "ok"
       /\ \A n \in 1 .. Len(photos) : \E m \in 1 .. Len(response.photos) :
             response.photos[m] = photos[n]

\* A pixel extent that is 450/1000 of a scan side, to within one pixel.
ProportionalExtent(extent, side) == Abs(1000 * extent - 450 * side) < 1000

\* C16: for a scan of W x H pixels (large enough for both boxes to have a
\* positive pixel size) and the two boxes (20,20,450,450) and
\* (530,20,450,450), upright and without outpaint hint, the result holds
\* exactly 2 photos, with index 0 and 1, whose width is 450/1000 of W and
\* whose height is 450/1000 of H.
C16_EndToEnd ==
    (/\ response.kind = "ok"
     /\ bounding_boxes = EndToEndBoxes
     /\ img.w >= 3 /\ img.h >= 3)
    => /\ Len(response.photos) = 2
       /\ \A n \in 1 .. Len(response.photos) :
             /\ response.photos[n].index = n - 1
             /\ response.photos[n].width = response.photos[n].image.w
             /\ response.photos[n].height = response.photos[n].image.h
             /\ ProportionalExtent(response.photos[n].width, img.w)
             /\ ProportionalExtent(response.photos[n].height, img.h)

-----------------------------------------------------------------------------
(* Properties of the rotation correction, checked under SpecRot *)

Canonical == {0, 90, 180, 270}

\* C4: the correction is the inverse of the detected rotation: an upright
\* photo turned a degrees clockwise (a in {0, 90, 180, 270}) and corrected
\* with rotation_angle = a is the upright photo again, pixel for pixel, width
\* and height included.
C4_RoundTrip ==
    (rot_out # Idle /\ rot_angle \in Canonical /\ rot_angle = 90 * rot_turns)
    => rot_out = rot_upright

\* A photo that is not square, lying a quarter turn clockwise and detected at
\* 90 degrees, has been corrected.
C4_Witness ==
    /\ rot_out # Idle
    /\ rot_turns = 1 /\ rot_angle = 90
    /\ rot_upright.w = 3 /\ rot_upright.h = 2
    /\ rot_in.w = 2 /\ rot_in.h = 3
    /\ rot_out = rot_upright

\* The correction that belongs to a canonical angle.
CanonicalCorrection(im, c) ==
    CASE c = 90 -> rotate270(im)
      [] c = 180 -> rotate180(im)
      [] c = 270 -> rotate90(im)
      [] OTHER -> im

\* Distance of an angle to a canonical value, on the line and on the circle.
LineDistance(a, c) == Abs(a - c)
CircleDistance(a, c) ==
    LET d == (((a - c) % 360) + 360) % 360
    IN  Min(d, 360 - d)

\* The canonical values nearest to a: on the line or on the circle, either
\* one of two that are equally near.
Nearest(a) ==
    {c \in Canonical : \A d \in Canonical : LineDistance(a, c) <= LineDistance(a, d)}
    \cup
    {c \in Canonical : \A d \in Canonical : CircleDistance(a, c) <= CircleDistance(a, d)}

\* C5: every rotation_angle is taken for the nearest of 0/90/180/270: the
\* correction applied is the one of a canonical value nearest to the angle.
C5_NearestBucket ==
    rot_out # Idle
    => \E c \in Nearest(rot_angle) : rot_out = CanonicalCorrection(rot_in, c)

\* The bucket of a canonical value: the angles less than 45 degrees from it.
InBucket(a, c) == Abs(a - c) < 45

\* C15: a rotation_angle of 0, and any angle within 45 degrees of 0 (on the
\* line or round the circle) that is in none of the buckets of 90, 180 and
\* 270, leaves the crop as it is: same width, same height, same pixels.
C15_NoOpRotation ==
    (/\ rot_out # Idle
     /\ Abs(rot_angle) <= 45 \/ CircleDistance(rot_angle, 0) <= 45
     /\ ~InBucket(rot_angle, 90) /\ ~InBucket(rot_angle, 180)
     /\ ~InBucket(rot_angle, 270))
    => /\ rot_out.w = rot_in.w /\ rot_out.h = rot_in.h
       /\ rot_out = rot_in

\* A 2 x 3 crop detected at 45 degrees, the end of the range, came back as
\* it was.
C15_Witness ==
    /\ rot_out # Idle
    /\ rot_angle = 45
    /\ rot_in.w = 2 /\ rot_in.h = 3
    /\ rot_out = rot_in

-----------------------------------------------------------------------------
(* Properties of auto_trim_dark_edges, checked under SpecTrim *)

\* floor(0.08 * dim)
EightPercent(dim) == (8 * dim) \div 100

\* `out` is `im` with l columns removed on the left, r on the right, t rows
\* at the top and b at the bottom.
IsTrimOf(out, im, l, r, t, b) ==
    /\ l + r < im.w /\ t + b < im.h
    /\ out = crop_imm(im, l, t, im.w - l - r, im.h - t - b)

\* C6: from an image of at least 20 x 20 pixels, auto_trim_dark_edges removes
\* on each side at most 8% of the dimension (floor(0.08 * w) columns on the
\* left and on the right, floor(0.08 * h) rows at the top and at the bottom),
\* and the result has no zero width or height.
C6_TrimBound ==
    (trim_out # Idle /\ trim_in.w >= 20 /\ trim_in.h >= 20)
    => /\ trim_out.w >= 1 /\ trim_out.h >= 1
       /\ \E l \in 0 .. EightPercent(trim_in.w), t \in 0 .. EightPercent(trim_in.h) :
             LET r == trim_in.w - l - trim_out.w
                 b == trim_in.h - t - trim_out.h
             IN  /\ 0 <= r /\ r <= EightPercent(trim_in.w)
                 /\ 0 <= b /\ b <= EightPercent(trim_in.h)
                 /\ IsTrimOf(trim_out, trim_in, l, r, t, b)

\* An image that is dark throughout has lost all that may go: 3 columns of
\* 40 on either side and 1 row of 20 at the top and at the bottom.
C6_Witness ==
    /\ trim_out # Idle
    /\ trim_in.w = 40 /\ trim_in.h = 20
    /\ trim_out.w = 34 /\ trim_out.h = 18
    /\ IsTrimOf(trim_out, trim_in, 3, 3, 1, 1)

\* mean of R, G, B below 60
MeanBelow60(p) == p[1] + p[2] + p[3] < 3 * 60

\* The leftmost m columns of im are dark and every other pixel is not.
DarkLeftMargin(im, m) ==
    \A q \in Coords(im.w, im.h) : MeanBelow60(im.px[q]) <=> q[1] < m

\* C7: an image of at least 20 x 20 pixels whose leftmost m columns are dark,
\* m at most 5% of the width, and whose other pixels are bright comes back
\* with those m columns removed, to within one column, and nothing removed
\* at the top, at the bottom or on the right.
C7_LeftMarginRemoved ==
    (trim_out # Idle /\ trim_in.w >= 20 /\ trim_in.h >= 20)
    => \A m \in 0 .. trim_in.w :
          (100 * m <= 5 * trim_in.w /\ DarkLeftMargin(trim_in, m))
          => \E l \in {m - 1, m, m + 1} :
                l >= 0 /\ IsTrimOf(trim_out, trim_in, l, 0, 0, 0)

\* A 40 x 20 image with a dark margin of 2 columns (5%) has lost exactly them.
C7_Witness ==
    /\ trim_out # Idle
    /\ trim_in.w = 40 /\ trim_in.h = 20
    /\ DarkLeftMargin(trim_in, 2)
    /\ trim_out.w = 38
    /\ IsTrimOf(trim_out, trim_in, 2, 0, 0, 0)

-----------------------------------------------------------------------------
(* Properties of the ingest, checked under SpecParse *)

\* C8: a bounding-box object whose x, y, width and height are numbers,
\* whatever their values, is accepted and clamped: x and y in [0, 1000],
\* width >= 1, height >= 1, width <= 1000 - x, height <= 1000 - y; its ingest
\* never fails or aborts the detection.
C8_IngestClamps ==
    (/\ parse_out # <<>>
     /\ is_number(parse_in.x) /\ is_number(parse_in.y)
     /\ is_number(parse_in.width) /\ is_number(parse_in.height))
    => /\ parse_out.kind = "box"
       /\ 0 <= parse_out.x /\ parse_out.x <= 1000
       /\ 0 <= parse_out.y /\ parse_out.y <= 1000
       /\ parse_out.width >= 1 /\ parse_out.width <= 1000 - parse_out.x
       /\ parse_out.height >= 1 /\ parse_out.height <= 1000 - parse_out.y

-----------------------------------------------------------------------------
(* Properties of apply_local_filters, checked under SpecFilters *)

\* The filter names of the configuration surface.
RecognizedNames ==
    {"clahe", "sharpen", "sharpen_mild", "sharpen_strong", "bilateral",
     "denoise", "denoise_mild", "denoise_strong"}
IsRecognized(name) == name \in RecognizedNames

\* The filter a recognized name stands for; any other name stands for none.
NamedFilter(name, im) ==
    CASE name = "clahe" -> apply_clahe(im)
      [] name = "sharpen" -> apply_unsharp_mask(im, 10)
      [] name = "sharpen_mild" -> apply_unsharp_mask(im, 5)
      [] name = "sharpen_strong" -> apply_unsharp_mask(im, 20)
      [] name = "bilateral" -> apply_bilateral_approx(im)
      [] name = "denoise" -> blur(im, 15)
      [] name = "denoise_mild" -> blur(im, 8)
      [] name = "denoise_strong" -> blur(im, 30)
      [] OTHER -> im

\* f_nk(... f_n2(f_n1(im))) for names = <<n1, ..., nk>>
RECURSIVE Chained(_, _)
Chained(names, im) ==
    IF names = <<>> THEN im
    ELSE CHOOSE out \in {Chained(Tail(names), next) :
                            next \in {NamedFilter(Head(names), im)}} : TRUE

\* The loop of apply_local_filters is over.
ChainDone == flt_pc = "done"

\* C11: names the filter chain does not recognize are no-ops: the buffer
\* that results from a list is the one that results from the list with those
\* names taken out; no such name ends the request with an error, the only
\* error being the encoder's after the whole list; and for the list
\* <<"nonexistent_filter">> the buffer handed to the encoder is the decoded
\* input.
C11_UnknownNamesSkipped ==
    /\ ChainDone =>
          /\ current = Chained(SelectSeq(active_filters, IsRecognized), flt_req.img)
          /\ flt_k = Len(active_filters) + 1
          /\ flt_response.kind = "err" => flt_response.error = "Image encode error"
          /\ flt_response.kind = "ok" =>
                flt_response.result.of =
                    Chained(SelectSeq(active_filters, IsRecognized), flt_req.img)
    /\ (ChainDone /\ active_filters = <<"nonexistent_filter">>) => current = flt_req.img

\* The request with the one name "nonexistent_filter" was answered with the
\* encoding of its input.
C11_Witness ==
    /\ ChainDone
    /\ flt_req.filters = SomeFilters(<<"nonexistent_filter">>)
    /\ flt_response.kind = "ok"
    /\ flt_response.result.of = flt_req.img

\* C12: the buffer is folded through the names in list order, each filter
\* getting the output of the one before it and each occurrence of a name
\* applied once: after the first k names the buffer is f_nk(...f_n1(input));
\* without a list the names are clahe, then sharpen; the answer is the
\* encoding of the buffer after the last name.
C12_FoldInListOrder ==
    /\ flt_pc \in {"loop", "done"} =>
          /\ active_filters = IF flt_req.filters.some THEN flt_req.filters.names
                              ELSE <<"clahe", "sharpen">>
          /\ current = Chained(SubSeq(active_filters, 1, flt_k - 1), flt_req.img)
    /\ flt_response.kind = "ok" =>
          /\ flt_k = Len(active_filters) + 1
          /\ flt_response.result.of = current

\* A 3 x 4 upload without a list was equalized, its pixels changed, and then
\* sharpened.
C12_Witness ==
    /\ ChainDone
    /\ ~flt_req.filters.some
    /\ flt_req.img.w = 3
    /\ flt_response.kind = "ok"
    /\ flt_response.result.of.px = apply_clahe(flt_req.img).px
    /\ flt_response.result.of.px # flt_req.img.px
    /\ flt_response.result.of.lib = <<<<"apply_unsharp_mask", 10>>>>

-----------------------------------------------------------------------------
(* Properties of outpaint_photo, checked under SpecOutpaint *)

\* C13: a request whose contour has fewer than 3 points never reaches the
\* outpainting collaborator: nothing is forwarded, the API key is not taken
\* from the state, and the answer is the submitted crop as it came, whatever
\* the needs_outpaint hint of its box is.
C13_ShortContourNotForwarded ==
    Len(outp_req.contour) < 3
    => /\ outp_forwarded = <<>>
       /\ outp_key_reads = 0
       /\ outp_pc \in {"start", "done"}
       /\ outp_pc = "done" =>
             outp_response = [kind |-> "ok", result |-> outp_req.cropped_base64]

\* A crop with a contour of two points, the outpaint hint set and a key in
\* the state came back as submitted.
C13_Witness ==
    /\ outp_pc = "done"
    /\ Len(outp_req.contour) = 2
    /\ outp_hint
    /\ outp_api_key # NoKey
    /\ outp_response.kind = "ok"
    /\ outp_response.result = outp_req.cropped_base64

-----------------------------------------------------------------------------
(* Properties of rotate_image, checked under SpecRotate *)

\* An image turned clockwise by a canonical number of degrees.
TurnedBy(im, c) ==
    CASE c = 90 -> rotate90(im)
      [] c = 180 -> rotate180(im)
      [] c = 270 -> rotate270(im)
      [] OTHER -> im

\* C14: rotate_image normalizes the degrees d to ((d % 360) + 360) % 360 and
\* snaps the result to the nearest of 0, 90, 180, 270: the image is turned
\* by a canonical value nearest to the normalized degrees (89 and 91 turn by
\* 90, -90 turns by 270).
C14_SnapsToNearest ==
    rr_pc \in {"encode", "done"}
    => \E c \in Nearest(((rr_req.degrees % 360) + 360) % 360) :
          rr_rotated = TurnedBy(rr_req.img, c)

-----------------------------------------------------------------------------
(* Properties of apply_clahe, under SpecClahe *)

\* The x and the y origins of the tiles apply_clahe walked over.
TileColumns == {t.tx : t \in clahe_grid}
TileRows == {t.ty : t \in clahe_grid}

\* C17: apply_clahe partitions every image into a grid of at least 8 tiles
\* along each axis, and every tile is at least 16 pixels wide and 16 pixels
\* high.
C17_TileGrid ==
    clahe_out # Idle
    => /\ Cardinality(TileColumns) >= 8
       /\ Cardinality(TileRows) >= 8
       /\ \A t \in clahe_grid : t.end_x - t.tx >= 16 /\ t.end_y - t.ty >= 16

\* The luminances present in a raster, and their spread (max minus min).
LumsOf(im) == {luminance(im.px[q]) : q \in Coords(im.w, im.h)}
LumSpread(im) ==
    CHOOSE d \in {hi - lo :
                    lo \in {l \in LumsOf(im) : \A m \in LumsOf(im) : l <= m},
                    hi \in {l \in LumsOf(im) : \A m \in LumsOf(im) : m <= l}} :
        TRUE

\* The raster is one tile whose luminances lie within a band of three
\* neighbouring levels.
LowContrastTile ==
    /\ Cardinality(clahe_grid) = 1
    /\ LumSpread(clahe_in) <= 2

\* C18: on a low-contrast tile (a tile of one uniform luminance included)
\* apply_clahe strictly increases the spread of the luminances and leaves the
\* dimensions of the image unchanged.
C18_SpreadIncreases ==
    (clahe_out # Idle /\ LowContrastTile)
    => /\ LumSpread(clahe_out) > LumSpread(clahe_in)
       /\ clahe_out.w = clahe_in.w /\ clahe_out.h = clahe_in.h

-----------------------------------------------------------------------------
(* The share of the image auto_trim_dark_edges keeps, under SpecTrim *)

\* C19: auto_trim_dark_edges preserves at least 90% of the image: the buffer
\* it returns keeps at least 90% of the pixel area of its input, and at least
\* 90% of its width and of its height.
C19_KeepsNinetyPercent ==
    trim_out # Idle
    => /\ 100 * (trim_out.w * trim_out.h) >= 90 * (trim_in.w * trim_in.h)
       /\ 100 * trim_out.w >= 90 * trim_in.w
       /\ 100 * trim_out.h >= 90 * trim_in.h

-----------------------------------------------------------------------------
(* One step of the overlap pass, under Spec *)

\* The pair the overlap pass is looking at intersects.
PairIntersects ==
    /\ pc = "overlap"
    /\ HOverlapExtent(fixed_boxes[i], fixed_boxes[j]) > 0
    /\ VOverlapExtent(fixed_boxes[i], fixed_boxes[j]) > 0

\* Box `far` has its origin advanced by s along the axis and its extent
\* reduced by s, box `near` has its extent reduced by s, all else is as it
\* was.
ShrunkAlong(horizontal, far, near, s) ==
    IF horizontal
    THEN fixed_boxes' =
            [fixed_boxes EXCEPT
                ![far] = [@ EXCEPT !.x = @ + s, !.width = @ - s],
                ![near] = [@ EXCEPT !.width = @ - s]]
    ELSE fixed_boxes' =
            [fixed_boxes EXCEPT
                ![far] = [@ EXCEPT !.y = @ + s, !.height = @ - s],
                ![near] = [@ EXCEPT !.height = @ - s]]

\* C20: shrink rule for one intersecting pair (h_overlap > 0, v_overlap > 0).
\* The axis resolved is the one with the smaller overlap extent, horizontal
\* when the two are equal; the shrink amount is floor(overlap / 2) + 1 with
\* overlap = min(h_overlap, v_overlap); the box lying further along that axis
\* has its origin advanced by the amount and its extent reduced by it, the
\* other box has its extent reduced by the same amount, and nothing on the
\* other axis changes.
C20_ShrinkRule ==
    [][PairIntersects
       => LET a == fixed_boxes[i]
              b == fixed_boxes[j]
              h == HOverlapExtent(a, b)
              v == VOverlapExtent(a, b)
              horizontal == h <= v
              s == (IF h <= v THEN h ELSE v) \div 2 + 1
          IN  \E far, near \in {i, j} :
                 /\ far # near
                 /\ IF horizontal
                    THEN fixed_boxes[far].x >= fixed_boxes[near].x
                    ELSE fixed_boxes[far].y >= fixed_boxes[near].y
                 /\ ShrunkAlong(horizontal, far, near, s)]_vars

\* The first two boxes met on the y axis, 49 units deep and 500 wide: the
\* lower one has moved down by floor(49 / 2) + 1 = 25 and has lost 25 of its
\* height, the upper one has lost 25 of its height, and no x has changed.
C20_Witness ==
    /\ pair_checks >= 1
    /\ Len(bounding_boxes) >= 2
    /\ HOverlapExtent(bounding_boxes[1], bounding_boxes[2]) = 500
    /\ VOverlapExtent(bounding_boxes[1], bounding_boxes[2]) = 49
    /\ bounding_boxes[1].y < bounding_boxes[2].y
    /\ fixed_boxes[2].y = bounding_boxes[2].y + 25
    /\ fixed_boxes[2].height = bounding_boxes[2].height - 25
    /\ fixed_boxes[1].height = bounding_boxes[1].height - 25
    /\ fixed_boxes[1].y = bounding_boxes[1].y
    /\ fixed_boxes[1].x = bounding_boxes[1].x
    /\ fixed_boxes[2].x = bounding_boxes[2].x

\* After the step, box `near` ends on the resolved axis where box `far`
\* begins.
ClosedAlong(horizontal, far, near) ==
    IF horizontal
    THEN fixed_boxes'[near].x + fixed_boxes'[near].width = fixed_boxes'[far].x
    ELSE fixed_boxes'[near].y + fixed_boxes'[near].height = fixed_boxes'[far].y

\* C21: after the overlap pass has resolved one intersecting pair, the
\* overlap on the resolved axis is exactly closed: the far edge of the box
\* nearer the origin equals the origin of the box further along that axis,
\* so the two neither overlap nor have a gap between them on that axis.
C21_GapExactlyCloses ==
    [][PairIntersects
       => LET a == fixed_boxes[i]
              b == fixed_boxes[j]
              horizontal == HOverlapExtent(a, b) <= VOverlapExtent(a, b)
          IN  \E far, near \in {i, j} :
                 /\ far # near
                 /\ IF horizontal
                    THEN fixed_boxes[far].x >= fixed_boxes[near].x
                    ELSE fixed_boxes[far].y >= fixed_boxes[near].y
                 /\ ClosedAlong(horizontal, far, near)]_vars

-----------------------------------------------------------------------------
(* The overlap pass as a whole, under Spec *)

\* Number of pairs (m, n), m < n <= count, that come before (a, b) in
\* lexicographic order.
PairsBefore(a, b, count) ==
    (a - 1) * count - (a * (a - 1)) \div 2 + (b - a - 1)

\* x, y, width and height of a box.
Geometry(b) == <<b.x, b.y, b.width, b.height>>

\* The boxes of the request in another order.
Reordered(q) == [k \in 1 .. Len(bounding_boxes) |-> bounding_boxes[q[k]]]

\* C22: the overlap pass is a single greedy pass: each pair (i, j), i < j, is
\* examined exactly once, in lexicographic order, and the pass ends after
\* N (N - 1) / 2 pair checks, without iterating to a fixed point: while the
\* pass runs, the pair it looks at is the one that has pair_checks pairs
\* before it, a step is always possible and counts one pair, and once the
\* pass is over N (N - 1) / 2 pairs have been counted.  (That the geometries
\* depend on the order of three mutually overlapping boxes is what the
\* witness shows.)
C22_SingleGreedyPass ==
    /\ [](LET count == Len(bounding_boxes)
          IN  /\ pc = "overlap"
                 => /\ 1 <= i /\ i < j /\ j <= count
                    /\ pair_checks = PairsBefore(i, j, count)
                    /\ ENABLED (OverlapShrink \/ OverlapSkip)
              /\ PassDone => pair_checks = (count * (count - 1)) \div 2)
    /\ [][pc = "overlap" => pair_checks' = pair_checks + 1]_vars

\* Three boxes that overlap one another, after the pass: handed over in
\* another order, the same boxes come out with another rectangle for one of
\* them.
C22_Witness ==
    /\ PassDone
    /\ Len(bounding_boxes) = 3
    /\ pair_checks = 3
    /\ \A m, n \in 1 .. 3 :
          m # n => /\ HOverlapExtent(bounding_boxes[m], bounding_boxes[n]) > 0
                   /\ VOverlapExtent(bounding_boxes[m], bounding_boxes[n]) > 0
                   /\ bounding_boxes[m] # bounding_boxes[n]
    /\ \E q \in [1 .. 3 -> 1 .. 3] :
          /\ \A m, n \in 1 .. 3 : m # n => q[m] # q[n]
          /\ \E other \in {reconcile(Reordered(q))} :
                \E k \in 1 .. 3 : Geometry(other[k]) # Geometry(fixed_boxes[q[k]])

\* The two boxes have no overlap on at least one axis: they are disjoint or
\* touch along an edge or at a corner.
ZeroOverlap(a, b) == HOverlapExtent(a, b) <= 0 \/ VOverlapExtent(a, b) <= 0

\* C23: a pair of boxes whose overlap is zero on at least one axis causes no
\* change to either box, and a list of pairwise non-intersecting boxes comes
\* out of the overlap pass identical to the input.
C23_ZeroOverlapUntouched ==
    /\ [][(pc = "overlap" /\ ZeroOverlap(fixed_boxes[i], fixed_boxes[j]))
          => fixed_boxes' = fixed_boxes]_vars
    /\ []((/\ PassDone
           /\ \A m, n \in 1 .. Len(bounding_boxes) :
                 m # n => ZeroOverlap(bounding_boxes[m], bounding_boxes[n]))
          => fixed_boxes = bounding_boxes)

\* Three boxes have passed unchanged: two of them touch along an edge, two
\* at a corner, and two are apart.
C23_Witness ==
    /\ PassDone
    /\ Len(bounding_boxes) = 3
    /\ pair_checks = 3
    /\ \A m, n \in 1 .. 3 : m # n => ZeroOverlap(bounding_boxes[m], bounding_boxes[n])
    /\ \E m, n \in 1 .. 3 :
          /\ HOverlapExtent(bounding_boxes[m], bounding_boxes[n]) = 0
          /\ VOverlapExtent(bounding_boxes[m], bounding_boxes[n]) > 0
    /\ \E m, n \in 1 .. 3 :
          /\ HOverlapExtent(bounding_boxes[m], bounding_boxes[n]) = 0
          /\ VOverlapExtent(bounding_boxes[m], bounding_boxes[n]) = 0
    /\ \E m, n \in 1 .. 3 :
          HOverlapExtent(bounding_boxes[m], bounding_boxes[n]) < 0
    /\ fixed_boxes = bounding_boxes

-----------------------------------------------------------------------------
(* The order of the stages of crop_photos, under Spec *)

\* The photo is the crop of the scan at the box it names, then corrected for
\* the rotation of the box, then trimmed, and reports the size of the
\* trimmed buffer.
CropRotateTrim(p) ==
    \E r \in {crop_rect(p.source_box, img.w, img.h)} :
       \E cropped \in {crop_imm(img, r.px, r.py, r.pw, r.ph)} :
          \E rotated \in {correct_rotation(cropped, p.source_box.rotation_angle)} :
             /\ p.image = auto_trim_dark_edges(rotated)
             /\ p.width = p.image.w
             /\ p.height = p.image.h

\* C24: order of the stages of crop_photos.  The overlap pass over all pairs
\* is over before a box is converted to pixels or a pixel is cropped, and no
\* box changes after it; a box shrunk by several overlaps enters the
\* conversion with all its adjustments (the boxes cropped are those of the
\* whole pass over the request's boxes); and each photo is the crop, then
\* rotation-corrected, then trimmed, its width and height being those of the
\* trimmed buffer.
C24_StageOrder ==
    /\ []((idx > 1 \/ photos # <<>>)
          => /\ PassDone
             /\ pair_checks =
                    (Len(bounding_boxes) * (Len(bounding_boxes) - 1)) \div 2)
    /\ [][/\ pc = "overlap" => (photos' = photos /\ idx' = idx)
          /\ PassDone => fixed_boxes' = fixed_boxes
          /\ photos' # photos
             => /\ fixed_boxes = reconcile(bounding_boxes)
                /\ photos' = Append(photos, photos'[Len(photos')])
                /\ photos'[Len(photos')].index = idx - 1
                /\ photos'[Len(photos')].source_box = fixed_boxes[idx]
                /\ CropRotateTrim(photos'[Len(photos')])]_vars

\* The second of three boxes was shrunk on x by the first and on y by the
\* third, and was cropped as the pass left it: 451 from the left, 449 wide,
\* 487 high; being turned back from 90 degrees, the photo is as wide as the
\* crop was high.
C24_Witness ==
    /\ Len(bounding_boxes) = 3
    /\ Geometry(bounding_boxes[2]) = <<400, 0, 500, 500>>
    /\ \E n \in 1 .. Len(photos) :
          /\ photos[n].index = 1
          /\ Geometry(photos[n].source_box) = <<451, 0, 449, 487>>
          /\ photos[n].source_box.rotation_angle = 90
          /\ photos[n].width = crop_rect(photos[n].source_box, img.w, img.h).ph
          /\ photos[n].height = crop_rect(photos[n].source_box, img.w, img.h).pw
          /\ photos[n].width # photos[n].height

-----------------------------------------------------------------------------
(* The four scans of auto_trim_dark_edges, under SpecTrim *)

\* The unweighted mean of R, G, B is below 60.
DarkMean(p) == p[1] + p[2] + p[3] < 3 * 60

\* At least 0.55 of the pixels of column x, of row y, are dark.
MostlyDarkCol(im, x) ==
    100 * Cardinality({y \in 0 .. im.h - 1 : DarkMean(im.px[<<x, y>>])}) >= 55 * im.h
MostlyDarkRow(im, y) ==
    100 * Cardinality({x \in 0 .. im.w - 1 : DarkMean(im.px[<<x, y>>])}) >= 55 * im.w

\* The columns of the image that are mostly dark, and its rows.
DarkCols(im) == {x \in 0 .. im.w - 1 : MostlyDarkCol(im, x)}
DarkRows(im) == {y \in 0 .. im.h - 1 : MostlyDarkRow(im, y)}

\* Length of the run of members of `lines` that starts at line 0 (at line
\* last, counting downwards), as far as `limit` lines.
RunUp(lines, limit) ==
    CHOOSE k \in 0 .. limit :
        /\ \A n \in 0 .. k - 1 : n \in lines
        /\ k = limit \/ k \notin lines
RunDown(lines, last, limit) ==
    CHOOSE k \in 0 .. limit :
        /\ \A n \in 0 .. k - 1 : last - n \in lines
        /\ k = limit \/ last - k \notin lines

\* C25: in auto_trim_dark_edges each of the four edges is scanned on its own
\* on the full untrimmed input, and advances only through the contiguous run
\* of mostly-dark columns or rows (dark fraction >= 0.55, a pixel being dark
\* when the mean of R, G, B is below 60) that starts at that edge, up to 8%
\* of the dimension: the scan stops at the first line that is not mostly
\* dark, a dark line beyond it is never removed, and one crop applies the
\* four trims.
C25_ContiguousRuns ==
    (trim_out # Idle /\ trim_in.w >= 20 /\ trim_in.h >= 20)
    => \E cols \in {DarkCols(trim_in)}, rows \in {DarkRows(trim_in)} :
          IsTrimOf(trim_out, trim_in,
                   RunUp(cols, EightPercent(trim_in.w)),
                   RunDown(cols, trim_in.w - 1, EightPercent(trim_in.w)),
                   RunUp(rows, EightPercent(trim_in.h)),
                   RunDown(rows, trim_in.h - 1, EightPercent(trim_in.h)))

\* The outermost column on the left is bright and the one after it is dark,
\* within the 3 columns that may go from a width of 40: nothing was removed.
C25_Witness ==
    /\ trim_out # Idle
    /\ trim_in.w = 40 /\ trim_in.h = 20
    /\ ~MostlyDarkCol(trim_in, 0)
    /\ MostlyDarkCol(trim_in, 1)
    /\ trim_out = trim_in

-----------------------------------------------------------------------------
(* AppState (server/src/state.rs, src-tauri/src/state.rs).  An Option is a  *)
(* sequence of length 0 or 1; a HashMap is a function on the keys present. *)

None == <<>>
Some(v) == <<v>>

\* ProviderStatus; last_error is None throughout and left out.
ProviderStatus(name, available, priority) ==
    [name |-> name, enabled |-> TRUE, available |-> available, priority |-> priority]

\* init_providers: the server puts google first and has ollama unavailable,
\* the desktop application puts anthropic first and has ollama available.
init_providers(v, keys) ==
    IF v = "server"
    THEN << ProviderStatus("google", "google" \in DOMAIN keys, 1),
            ProviderStatus("anthropic", "anthropic" \in DOMAIN keys, 2),
            ProviderStatus("openai", "openai" \in DOMAIN keys, 3),
            ProviderStatus("mistral", "mistral" \in DOMAIN keys, 4),
            ProviderStatus("groq", "groq" \in DOMAIN keys, 5),
            ProviderStatus("ollama", FALSE, 6) >>
    ELSE << ProviderStatus("anthropic", "anthropic" \in DOMAIN keys, 1),
            ProviderStatus("openai", "openai" \in DOMAIN keys, 2),
            ProviderStatus("google", "google" \in DOMAIN keys, 3),
            ProviderStatus("mistral", "mistral" \in DOMAIN keys, 4),
            ProviderStatus("groq", "groq" \in DOMAIN keys, 5),
            ProviderStatus("ollama", TRUE, 6) >>

\* load_api_keys: the keys found in the environment.
load_api_keys(env) == [n \in env |-> "env key"]

\* self.api_keys.insert(provider.to_string(), key)
insert_key(keys, provider, key) ==
    [n \in DOMAIN keys \cup {provider} |-> IF n = provider THEN key ELSE keys[n]]

\* if let Some(p) = providers.iter_mut().find(|p| p.name == provider) { p.available = available }
update_provider_availability(provs, provider, available) ==
    IF \E k \in 1 .. Len(provs) : provs[k].name = provider
    THEN LET first == CHOOSE k \in 1 .. Len(provs) :
                        /\ provs[k].name = provider
                        /\ \A m \in 1 .. k - 1 : provs[m].name # provider
         IN  [provs EXCEPT ![first].available = available]
    ELSE provs

\* self.api_keys.get(provider)
get_api_key(keys, provider) ==
    IF provider \in DOMAIN keys THEN Some(keys[provider]) ELSE None

\* providers.iter().filter(|p| p.enabled && p.available).min_by_key(|p| p.priority):
\* of several with the least priority, min_by_key takes the first.
first_by_priority(provs) ==
    LET usable == {k \in 1 .. Len(provs) : provs[k].enabled /\ provs[k].available}
    IN  IF usable = {} THEN None
        ELSE Some(provs[CHOOSE k \in usable :
                            \A m \in usable :
                                \/ provs[k].priority < provs[m].priority
                                \/ provs[k].priority = provs[m].priority /\ k <= m].name)

\* get_available_provider: the server looks at settings.preferred_provider
\* first, the desktop application does not.  (The keys are not looked at.)
get_available_provider(v, provs, prefs, keys) ==
    IF /\ v = "server"
       /\ prefs.preferred_provider # None
       /\ \E k \in 1 .. Len(provs) :
             /\ provs[k].name = prefs.preferred_provider[1]
             /\ provs[k].enabled /\ provs[k].available
    THEN prefs.preferred_provider
    ELSE first_by_priority(provs)

\* if self.history.len() > 100 { self.history.truncate(100) }
history_limit == 100

\* A variant that lets the new entry go when the history is full.
AddHistoryKeepsOld(hist, entry) ==
    IF Len(hist) >= history_limit THEN hist ELSE <<entry>> \o hist

\* self.history.insert(0, entry), then the truncation
add_history(hist, entry) ==
    LET inserted == <<entry>> \o hist
    IN  IF Len(inserted) > history_limit
        THEN SubSeq(inserted, 1, history_limit) ELSE inserted

\* self.history.clear()
clear_history(hist) == <<>>

\* AppSettings::default() and what save_settings may put in its place; of
\* the settings only preferred_provider is kept.
AppSettings(preferred) == [preferred_provider |-> preferred]

\* HistoryEntry; the n-th entry handed to add_history.
HistoryEntry(n) == [id |-> n]

-----------------------------------------------------------------------------
(* AppState as a state machine *)

\* Number of add_history calls in a run that fills the history.
MaxAdds == 102
\* Number of add_history calls in a run that is about keys and providers.
MaxProviderAdds == 1

EnvKeySets == SUBSET {"google", "groq"}
\* Names a client may send to set_api_key and as preferred_provider.
KeyTargets == {"anthropic", "ollama", "claude"}
Preferences == {None, Some("groq"), Some("ollama"), Some("openai")}

\* AppState::new()
NewAppState(v, env, budget) ==
    /\ variant = v
    /\ history = <<>>
    /\ hist_added = 0
    /\ hist_budget = budget
    /\ settings = AppSettings(None)
    /\ api_keys = load_api_keys(env)
    /\ providers = init_providers(v, load_api_keys(env))
    /\ restore_result = NoReply

InitHistory ==
    /\ CropIdle /\ PureIdle /\ FiltersIdle /\ OutpaintIdle /\ RotateIdle
    /\ ClaheIdle /\ RetryIdle
    /\ \E v \in {"server", "desktop"} : NewAppState(v, {}, MaxAdds)

InitProviders ==
    /\ CropIdle /\ PureIdle /\ FiltersIdle /\ OutpaintIdle /\ RotateIdle
    /\ ClaheIdle /\ RetryIdle
    /\ \E v \in {"server", "desktop"}, env \in EnvKeySets :
          NewAppState(v, env, MaxProviderAdds)

AppOthersUnchanged ==
    UNCHANGED <<retry_vars, crop_vars, trim_vars, rot_vars, parse_vars, flt_vars,
                outp_vars, rr_vars, clahe_vars>>

\* A handler records an operation: state_guard.add_history(entry).
AddHistory ==
    /\ variant # "none"
    /\ hist_added < hist_budget
    /\ hist_added' = hist_added + 1
    /\ history' = add_history(history, HistoryEntry(hist_added + 1))
    /\ UNCHANGED <<variant, hist_budget, settings, api_keys, providers, restore_result>>
    /\ AppOthersUnchanged

\* The clear_history handler.
ClearHistory ==
    /\ variant # "none"
    /\ history # <<>>
    /\ history' = clear_history(history)
    /\ UNCHANGED <<variant, hist_added, hist_budget, settings, api_keys, providers,
                   restore_result>>
    /\ AppOthersUnchanged

\* The set_api_key handler.
SetApiKey ==
    /\ variant # "none"
    /\ \E provider \in KeyTargets :
          /\ api_keys' = insert_key(api_keys, provider, "client key")
          /\ providers' = update_provider_availability(providers, provider, TRUE)
    /\ UNCHANGED <<variant, history, hist_added, hist_budget, settings, restore_result>>
    /\ AppOthersUnchanged

\* The save_settings handler: state.settings = settings.
SaveSettings ==
    /\ variant # "none"
    /\ \E preferred \in Preferences : settings' = AppSettings(preferred)
    /\ UNCHANGED <<variant, history, hist_added, hist_budget, api_keys, providers,
                   restore_result>>
    /\ AppOthersUnchanged

\* restore_image: .ok_or_else(|| "No AI provider available")?
RestoreNoProvider ==
    /\ variant # "none"
    /\ get_available_provider(variant, providers, settings, api_keys) = None
    /\ restore_result' = [kind |-> "err", error |-> "No AI provider available"]
    /\ UNCHANGED <<variant, history, hist_added, hist_budget, settings, api_keys,
                   providers>>
    /\ AppOthersUnchanged

\* restore_image: .ok_or_else(|| "API key not found")?
RestoreKeyNotFound ==
    /\ variant # "none"
    /\ \E name \in {get_available_provider(variant, providers, settings, api_keys)} :
          /\ name # None
          /\ get_api_key(api_keys, name[1]) = None
          /\ restore_result' = [kind |-> "err", error |-> "API key not found"]
    /\ UNCHANGED <<variant, history, hist_added, hist_budget, settings, api_keys,
                   providers>>
    /\ AppOthersUnchanged

\* restore_image with a provider and its key: the provider fails and the
\* error is returned, or it answers and the operation goes to the history.
RestoreWithProvider ==
    /\ variant # "none"
    /\ \E name \in {get_available_provider(variant, providers, settings, api_keys)} :
          /\ name # None
          /\ get_api_key(api_keys, name[1]) # None
          /\ \/ /\ restore_result' = [kind |-> "err", error |-> "provider error"]
                /\ UNCHANGED <<history, hist_added>>
             \/ /\ hist_added < hist_budget
                /\ restore_result' = [kind |-> "ok", provider |-> name[1]]
                /\ hist_added' = hist_added + 1
                /\ history' = add_history(history, HistoryEntry(hist_added + 1))
    /\ UNCHANGED <<variant, hist_budget, settings, api_keys, providers>>
    /\ AppOthersUnchanged

NextHistory == AddHistory \/ ClearHistory

SpecHistory == InitHistory /\ [][NextHistory]_vars

NextProviders ==
    \/ AddHistory \/ ClearHistory \/ SetApiKey \/ SaveSettings
    \/ RestoreNoProvider \/ RestoreKeyNotFound \/ RestoreWithProvider

SpecProviders == InitProviders /\ [][NextProviders]_vars

-----------------------------------------------------------------------------
(* Properties of AppState *)

\* C26: after any sequence of add_history and clear_history calls the
\* history holds at most 100 entries, newest first; adding an entry when 100
\* are present keeps the new entry at the front and drops only the oldest.
C26_HistoryBounded ==
    /\ [](/\ Len(history) <= 100
          /\ \A m, n \in 1 .. Len(history) : m < n => history[m].id > history[n].id)
    /\ [][hist_added' # hist_added
          => /\ history'[1] = [id |-> hist_added']
             /\ history' = <<history'[1]>> \o
                    (IF Len(history) = 100 THEN SubSeq(history, 1, 99) ELSE history)]_vars

\* The history is full and has lost its two oldest entries: the 102nd entry
\* is at the front, the third at the end.
C26_Witness ==
    /\ Len(history) = 100
    /\ history[1].id = 102
    /\ history[100].id = 3

\* C30: in every reachable AppState, of the server and of the desktop
\* application, whenever get_available_provider returns a provider name an
\* API key for that name is present, so that restore_image never fails with
\* "API key not found" after a provider has been selected.
C30_ProviderHasKey ==
    /\ variant # "none"
       => \A name \in {get_available_provider(variant, providers, settings, api_keys)} :
             name # None => name[1] \in DOMAIN api_keys
    /\ restore_result # [kind |-> "err", error |-> "API key not found"]

-----------------------------------------------------------------------------
(* detect_photos_with_retry (handlers.rs 571-639, commands.rs 1103-1178) *)

\* DetectionResult, of which the boxes and their count are kept.
DetectionResult(boxes) == [photo_count |-> Len(boxes), bounding_boxes |-> boxes]

\* VerificationCheck and VerificationResult, of which the checks and the
\* missing boxes are kept.
VerificationCheck(name, passed) == [name |-> name, passed |-> passed]
VerificationResult(checks, missing_boxes) ==
    [checks |-> checks, missing_boxes |-> missing_boxes]

\* verification.checks.iter().any(|c| c.name == "completeness" && !c.passed)
completeness_failed(v) ==
    \E k \in 1 .. Len(v.checks) :
        v.checks[k].name = "completeness" /\ ~v.checks[k].passed

\* format!("photo {}", n)
PhotoLabels == <<"photo 1", "photo 2", "photo 3", "photo 4", "photo 5", "photo 6">>

\* merged_box.label = Some(format!("photo {}", result.bounding_boxes.len() + 1));
\* merged_box.confidence = merged_box.confidence.min(0.80)
merged_box(missing, boxes) ==
    [missing EXCEPT !.label = PhotoLabels[Len(boxes) + 1],
                    !.confidence = Min(missing.confidence, 80)]

\* for missing in verification.missing_boxes.iter() { result.bounding_boxes.push(merged_box) }
RECURSIVE merge_missing(_, _)
merge_missing(boxes, missing_boxes) ==
    IF missing_boxes = <<>> THEN boxes
    ELSE merge_missing(Append(boxes, merged_box(Head(missing_boxes), boxes)),
                       Tail(missing_boxes))

\* Largest number of boxes the verifier reports as missing.
MaxMissing == 2

Detections ==
    { <<>>,
      << Box(0, 0, 500, 500, 95, "photo 1", 0, <<>>, FALSE) >>,
      << Box(0, 0, 500, 500, 95, "photo 1", 0, <<>>, FALSE),
         Box(500, 0, 500, 500, 90, "photo 2", 90, Square, TRUE) >> }

MissingPool ==
    { Box(0, 500, 500, 500, 70, NoLabel, 0, <<>>, FALSE),
      Box(500, 500, 500, 500, 95, "photo 3", 0, <<>>, FALSE) }
MissingLists == UNION {[1 .. n -> MissingPool] : n \in 0 .. MaxMissing}

CheckLists ==
    { <<>>,
      << VerificationCheck("completeness", TRUE) >>,
      << VerificationCheck("completeness", FALSE) >>,
      << VerificationCheck("boundaries", FALSE) >>,
      << VerificationCheck("boundaries", TRUE), VerificationCheck("completeness", FALSE) >> }

InitRetry ==
    /\ CropIdle /\ PureIdle /\ FiltersIdle /\ OutpaintIdle /\ RotateIdle
    /\ ClaheIdle /\ AppIdle
    /\ retry_pc = "start"
    /\ retry_key \in BOOLEAN
    /\ verification_enabled \in BOOLEAN
    /\ detect_calls = 0
    /\ retry_result = <<>>
    /\ verification = <<>>
    /\ retry_response = NoReply

RetryOthersUnchanged ==
    UNCHANGED <<app_vars, crop_vars, trim_vars, rot_vars, parse_vars, flt_vars,
                outp_vars, rr_vars, clahe_vars>>

\* get_api_key("google").ok_or_else(|| "Google API key required")?
RetryKeyMissing ==
    /\ retry_pc = "start" /\ ~retry_key
    /\ retry_response' = [kind |-> "err", error |-> "Google API key required"]
    /\ retry_pc' = "done"
    /\ UNCHANGED <<retry_key, verification_enabled, detect_calls, retry_result,
                   verification>>
    /\ RetryOthersUnchanged

\* Step 1: detect_photo_boundaries answers.
RetryDetect ==
    /\ retry_pc = "start" /\ retry_key
    /\ detect_calls' = detect_calls + 1
    /\ \E boxes \in Detections : retry_result' = DetectionResult(boxes)
    /\ retry_pc' = "detected"
    /\ UNCHANGED <<retry_key, verification_enabled, verification, retry_response>>
    /\ RetryOthersUnchanged

\* Step 1: detect_photo_boundaries fails, `?` returns the error.
RetryDetectError ==
    /\ retry_pc = "start" /\ retry_key
    /\ detect_calls' = detect_calls + 1
    /\ retry_response' = [kind |-> "err", error |-> "detection error"]
    /\ retry_pc' = "done"
    /\ UNCHANGED <<retry_key, verification_enabled, retry_result, verification>>
    /\ RetryOthersUnchanged

\* if !verification_enabled { return Ok(Json(result)); }
RetryVerificationDisabled ==
    /\ retry_pc = "detected" /\ ~verification_enabled
    /\ retry_response' = [kind |-> "ok", result |-> retry_result]
    /\ retry_pc' = "done"
    /\ UNCHANGED <<retry_key, verification_enabled, detect_calls, retry_result,
                   verification>>
    /\ RetryOthersUnchanged

\* verify_detection fails: Err(e) => return Ok(Json(result))
RetryVerifyError ==
    /\ retry_pc = "detected" /\ verification_enabled
    /\ retry_response' = [kind |-> "ok", result |-> retry_result]
    /\ retry_pc' = "done"
    /\ UNCHANGED <<retry_key, verification_enabled, detect_calls, retry_result,
                   verification>>
    /\ RetryOthersUnchanged

\* verify_detection answers: Ok(v) => v
RetryVerified ==
    /\ retry_pc = "detected" /\ verification_enabled
    /\ \E checks \in CheckLists, missing \in MissingLists :
          verification' = VerificationResult(checks, missing)
    /\ retry_pc' = "verified"
    /\ UNCHANGED <<retry_key, verification_enabled, detect_calls, retry_result,
                   retry_response>>
    /\ RetryOthersUnchanged

\* Step 3: if completeness_failed && !verification.missing_boxes.is_empty(),
\* the missing boxes are pushed and photo_count is set anew.
RetryMerge ==
    /\ retry_pc = "verified"
    /\ completeness_failed(verification) /\ verification.missing_boxes # <<>>
    /\ retry_result' = DetectionResult(merge_missing(retry_result.bounding_boxes,
                                                     verification.missing_boxes))
    /\ retry_response' = [kind |-> "ok", result |-> retry_result']
    /\ retry_pc' = "done"
    /\ UNCHANGED <<retry_key, verification_enabled, detect_calls, verification>>
    /\ RetryOthersUnchanged

\* Otherwise the initial result is returned.
RetryNoMerge ==
    /\ retry_pc = "verified"
    /\ ~(completeness_failed(verification) /\ verification.missing_boxes # <<>>)
    /\ retry_response' = [kind |-> "ok", result |-> retry_result]
    /\ retry_pc' = "done"
    /\ UNCHANGED <<retry_key, verification_enabled, detect_calls, retry_result,
                   verification>>
    /\ RetryOthersUnchanged

NextRetry ==
    \/ RetryKeyMissing \/ RetryDetect \/ RetryDetectError
    \/ RetryVerificationDisabled \/ RetryVerifyError \/ RetryVerified
    \/ RetryMerge \/ RetryNoMerge

SpecRetry == InitRetry /\ [][NextRetry]_vars

-----------------------------------------------------------------------------
(* Properties of detect_photos_with_retry *)

\* C27: detect_photos_with_retry runs detection, then verification, and
\* whenever the verification reports missing photos (missing_boxes is not
\* empty) it either retries the detection with the verifier's feedback or
\* merges the boxes the verifier suggested into the result it returns: the
\* missing photos are never silently dropped.
C27_MissingNeverDropped ==
    (/\ retry_response.kind = "ok"
     /\ verification # <<>>
     /\ verification.missing_boxes # <<>>)
    => \/ detect_calls >= 2
       \/ \A m \in 1 .. Len(verification.missing_boxes) :
             \E k \in 1 .. Len(retry_response.result.bounding_boxes) :
                Geometry(retry_response.result.bounding_boxes[k])
                    = Geometry(verification.missing_boxes[m])

-----------------------------------------------------------------------------
(* Properties of the overlap pass and the crop loop, continued *)

\* Every field of the box lies in the normalized space.
FieldsInSpace(b) ==
    /\ b.x \in 0 .. NormMax /\ b.y \in 0 .. NormMax
    /\ b.width \in 0 .. NormMax /\ b.height \in 0 .. NormMax

\* The rectangle of box f lies inside the rectangle of box b.
ContainedIn(f, b) ==
    /\ f.x >= b.x /\ f.y >= b.y
    /\ f.x + f.width <= b.x + b.width
    /\ f.y + f.height <= b.y + b.height

\* C28: for input boxes within the normalized space (x + width <= 1000,
\* y + height <= 1000) the overlap pass only ever shrinks boxes: widths and
\* heights never drop below zero, x and y never decrease, no right edge
\* x + width and no bottom edge y + height ever increases, so every box stays
\* inside its own input rectangle and every coordinate stays in [0, 1000].
C28_OnlyShrinks ==
    /\ []((\A k \in 1 .. Len(bounding_boxes) : InSpace(bounding_boxes[k]))
          => \A k \in 1 .. Len(fixed_boxes) :
                /\ ContainedIn(fixed_boxes[k], bounding_boxes[k])
                /\ FieldsInSpace(fixed_boxes[k])
                /\ InSpace(fixed_boxes[k]))
    /\ [][(pc = "overlap"
           /\ \A k \in 1 .. Len(bounding_boxes) : InSpace(bounding_boxes[k]))
          => /\ Len(fixed_boxes') = Len(fixed_boxes)
             /\ \A k \in 1 .. Len(fixed_boxes) :
                   ContainedIn(fixed_boxes'[k], fixed_boxes[k])]_vars

\* The pass is over, every input box was inside the space, one box had its
\* origin advanced and another lost its far edge, along x and along y.
C28_Witness ==
    /\ PassDone
    /\ \A k \in 1 .. Len(bounding_boxes) : InSpace(bounding_boxes[k])
    /\ \E k \in 1 .. Len(fixed_boxes) : fixed_boxes[k].x > bounding_boxes[k].x
    /\ \E k \in 1 .. Len(fixed_boxes) : fixed_boxes[k].y > bounding_boxes[k].y
    /\ \E k \in 1 .. Len(fixed_boxes) :
          /\ fixed_boxes[k].x = bounding_boxes[k].x
          /\ fixed_boxes[k].x > 0
          /\ fixed_boxes[k].width < bounding_boxes[k].width

\* The rectangle lies inside an image of w x h pixels and is not empty.
InsideImage(r, w, h) ==
    /\ r.px >= 0 /\ r.py >= 0 /\ r.pw >= 1 /\ r.ph >= 1
    /\ r.px + r.pw <= w /\ r.py + r.ph <= h

\* C29: for every image size and every reconciled box with fields in
\* [0, 1000], also one shrunk to zero width or height, each crop rectangle
\* that crop_photos applies lies, after the 0.5% padding, inside the image:
\* px >= 0, py >= 0, pw >= 1, ph >= 1, px + pw <= image width and
\* py + ph <= image height; a box for which this cannot hold is skipped
\* rather than cropped.
C29_CropInsideImage ==
    [][(pc = "crop" /\ idx <= Len(fixed_boxes) /\ FieldsInSpace(fixed_boxes[idx]))
       => LET r == crop_rect(fixed_boxes[idx], img.w, img.h)
          IN  /\ photos' # photos => InsideImage(r, img.w, img.h)
              /\ ~InsideImage(r, img.w, img.h)
                 => photos' = photos /\ idx' = idx + 1 /\ pc' = pc]_vars

\* The crop loop is over for the boxes that hang over the space: the first
\* was cropped from a rectangle whose padded origin had to be clamped to 0,
\* the second from one whose padded width had to be clamped to the image,
\* the third was skipped.
C29_Witness ==
    /\ pc = "done" /\ response.kind = "ok"
    /\ bounding_boxes = OverhangBoxes
    /\ Len(response.photos) = 2
    /\ response.photos[1].index = 0 /\ response.photos[2].index = 1
    /\ to_pixel(fixed_boxes[1].x, img.w)
          - pad_of(to_pixel(fixed_boxes[1].width, img.w)) < 0
    /\ to_pixel(fixed_boxes[2].width, img.w)
          + 2 * pad_of(to_pixel(fixed_boxes[2].width, img.w))
        > crop_rect(fixed_boxes[2], img.w, img.h).pw
    /\ ~InsideImage(crop_rect(fixed_boxes[3], img.w, img.h), img.w, img.h)
    /\ FieldsInSpace(fixed_boxes[3])

====
